---- MODULE Spec2Model ----
(***************************************************************************)
(* SynthClock: the virtual time engine (TimeDilator), the Tone Clock       *)
(* theory tables, the audio channel manager (AudioEngine) and the App      *)
(* orchestration (play/stop, time-event handling, preset reconciliation).  *)
(*                                                                         *)
(* Units: times are integer milliseconds; the speed multiplier is kept in  *)
(* tenths (10 = 1.0x); volumes are not modelled.                           *)
(***************************************************************************)
EXTENDS Integers, Sequences, FiniteSets, TLC

VARIABLES
    \* ---- TimeDilator ----
    currentVirtualTime, \* virtual timestamp, ms since local midnight of the start day
    state,              \* TimeState: hours, minutes, seconds, milliseconds, speed, isRunning, isReverse
    intervalId,         \* TRUE when this.intervalId is non-null
    intervals,          \* number of live setInterval(update, 16) timers
    callbacks,          \* Map<string, callback> in insertion order: Seq of [id, cb]
    lastSecond, lastMinute, lastHour,
    \* the update() that has just run (cleared by any other call):
    emitted,            \* event types passed to emit()
    delivered,          \* callback invocations: [id, type, afterStop]
    tickPrev,           \* lastSecond/lastMinute/lastHour as update() found them
    threw,              \* TRUE when update() was aborted by a throwing callback
    ticks,              \* number of update() calls so far
    sinceLastRealTime,  \* performance.now() - this.lastRealTime at this moment, ms
    \* ---- AudioEngine ----
    isStarted,          \* this.isStarted
    starting,           \* start() calls awaiting Tone.start()
    channels,           \* Map<string, SynthChannel>: id -> [chain, preset, activeNotes], chain 0 = absent
    creating,           \* createChannel() calls awaiting reverb.generate(): [chain, id, preset]
    connected,          \* chains connected to the master volume and not disposed: [chain, id]
    nextChain,          \* identity of the next synth/chain instance
    masterVolume,       \* this.masterVolume.volume.value, dB
    \* ---- Arpeggiator ----
    arpeggiator,        \* notes, settings (enabled, pattern), pattern (Tone.Pattern or null),
                        \* isRunning, orphans (patterns left scheduled that nothing refers to)
    arpPlayed,          \* notes the live pattern has passed to the callback
    arpVoice,           \* AudioEngine's arp fields: arpCachedPreset, arpPortamento,
                        \* arpVolumeValue, and arpSynth with its chain (<<>> = null)
    \* ---- App (orchestration) and store ----
    isPlaying,          \* store.isPlaying
    audioStarted,       \* React state audioStarted
    preset,             \* store hourPreset / minutePreset / secondPreset, by layer
    prevPresets,        \* prevPresets.current, by layer
    droneTimers,        \* pending setTimeout(() => startHourDrone(), ..) callbacks
    playTasks,          \* handlePlay() invocations suspended at an await
    edits,              \* setPreset/updatePresetParameter calls so far
    submitted,          \* last preset the App passed to createChannel/updateSynthParams, by layer
    \* ---- the operation that has just run ----
    lastOp,             \* its name and arguments
    engCalls,           \* createChannel/updateSynthParams calls the App made in it
    synthCalls          \* calls it made on Tone synths: [chain, op, notes]

tdVars == <<currentVirtualTime, state, intervalId, intervals, callbacks,
            lastSecond, lastMinute, lastHour, emitted, delivered, tickPrev, threw, ticks,
            sinceLastRealTime>>
engVars == <<isStarted, starting, channels, creating, connected, nextChain, masterVolume>>
appVars == <<isPlaying, audioStarted, preset, prevPresets, droneTimers, playTasks, edits, submitted>>
opVars == <<lastOp, engCalls, synthCalls>>

arpVars == <<arpeggiator, arpPlayed, arpVoice>>

vars == <<tdVars, engVars, appVars, opVars, arpVars>>

----------------------------------------------------------------------------
(* Bounds *)
MaxTicks == 2       \* update() calls explored
MaxChains == 4      \* synth chains built
MaxTimers == 2      \* drone timeouts pending at once
MaxNotes == 4       \* active notes per channel in the engine-level specification
MaxStarts == 1      \* start() calls awaiting Tone.start() at once
MaxOverlap == 2     \* the same, where overlapping start() calls are the subject
MaxEdits == 2       \* setPreset/updatePresetParameter calls explored
MaxHeld == 2        \* notes held on a channel by the note calls
MaxBuilt == 2       \* createChannel calls made around the note calls
MaxArpSteps == 2    \* Tone.Pattern events explored after a start()

Min(a, b) == IF a < b THEN a ELSE b
Max(a, b) == IF a > b THEN a ELSE b

\* -Infinity dB: a muted volume node
NegInfinity == -1000000

----------------------------------------------------------------------------
(* Tone Clock theory *)

PITCH_CLASSES == <<"C", "C#", "D", "D#", "E", "F", "F#", "G", "G#", "A", "A#", "B">>

\* TONE_CLOCK_HOURS: prime form and tessellation (<<>> where the source has null)
TONE_CLOCK_HOURS == <<
    [hour |-> 1,  pitchClassSet |-> <<0, 1, 2>>, tessellation |-> << <<0, 1, 2>>, <<3, 4, 5>>, <<6, 7, 8>>, <<9, 10, 11>> >>],
    [hour |-> 2,  pitchClassSet |-> <<0, 1, 3>>, tessellation |-> << <<0, 1, 3>>, <<4, 5, 7>>, <<8, 9, 11>>, <<2, 6, 10>> >>],
    [hour |-> 3,  pitchClassSet |-> <<0, 1, 4>>, tessellation |-> << <<0, 1, 4>>, <<3, 7, 8>>, <<5, 6, 9>>, <<2, 10, 11>> >>],
    [hour |-> 4,  pitchClassSet |-> <<0, 1, 5>>, tessellation |-> << <<0, 1, 5>>, <<2, 6, 7>>, <<4, 8, 9>>, <<3, 10, 11>> >>],
    [hour |-> 5,  pitchClassSet |-> <<0, 1, 6>>, tessellation |-> << <<0, 1, 6>>, <<2, 7, 8>>, <<3, 4, 9>>, <<5, 10, 11>> >>],
    [hour |-> 6,  pitchClassSet |-> <<0, 2, 4>>, tessellation |-> << <<0, 2, 4>>, <<1, 3, 5>>, <<6, 8, 10>>, <<7, 9, 11>> >>],
    [hour |-> 7,  pitchClassSet |-> <<0, 2, 5>>, tessellation |-> << <<0, 2, 5>>, <<3, 6, 8>>, <<1, 9, 11>>, <<4, 7, 10>> >>],
    [hour |-> 8,  pitchClassSet |-> <<0, 2, 6>>, tessellation |-> << <<0, 2, 6>>, <<1, 3, 7>>, <<4, 8, 10>>, <<5, 9, 11>> >>],
    [hour |-> 9,  pitchClassSet |-> <<0, 2, 7>>, tessellation |-> << <<0, 2, 7>>, <<1, 3, 8>>, <<4, 6, 11>>, <<5, 9, 10>> >>],
    [hour |-> 10, pitchClassSet |-> <<0, 3, 6>>, tessellation |-> << >>],
    [hour |-> 11, pitchClassSet |-> <<0, 3, 7>>, tessellation |-> << <<0, 3, 7>>, <<1, 4, 8>>, <<2, 5, 9>>, <<6, 10, 11>> >>],
    [hour |-> 12, pitchClassSet |-> <<0, 4, 8>>, tessellation |-> << <<0, 4, 8>>, <<1, 5, 9>>, <<2, 6, 10>>, <<3, 7, 11>> >>] >>

\* getHour: the record with that clock position, <<>> for undefined
getHour(hourNumber) ==
    IF \E i \in 1..Len(TONE_CLOCK_HOURS) : TONE_CLOCK_HOURS[i].hour = hourNumber
    THEN TONE_CLOCK_HOURS[CHOOSE i \in 1..Len(TONE_CLOCK_HOURS) : TONE_CLOCK_HOURS[i].hour = hourNumber]
    ELSE <<>>

generateTrichord(hour, transposition) ==
    [i \in 1..Len(hour.pitchClassSet) |-> (hour.pitchClassSet[i] + transposition) % 12]

\* tessellate: the hour's 4 trichords, <<>> for null
tessellate(hour) == hour.tessellation

\* pitchClassToNote: note name and octave, e.g. <<"C#", 3>> for "C#3"
pitchClassToNote(pc, octave) == <<PITCH_CLASSES[(pc % 12) + 1], octave>>

\* mapTimeToToneClock with the note picked from 4 positions
mapTimeToToneClock_FourNotes(hours, minutes, seconds) ==
    LET hourIndex == IF hours = 0 THEN 12 ELSE IF hours > 12 THEN hours - 12 ELSE hours
        activeHour == IF getHour(hourIndex) = <<>> THEN TONE_CLOCK_HOURS[1] ELSE getHour(hourIndex)
        transpositionIndex == (minutes \div 15) % 4
        tessellation == activeHour.tessellation
    IN [activeHour |-> activeHour,
        currentTrichord |-> IF tessellation # <<>>
                            THEN tessellation[transpositionIndex + 1]
                            ELSE generateTrichord(activeHour, transpositionIndex * 3),
        tessellation |-> tessellation,
        transpositionIndex |-> transpositionIndex,
        noteIndex |-> seconds % 4]

mapTimeToToneClock(hours, minutes, seconds) ==
    LET hourIndex == IF hours = 0 THEN 12 ELSE IF hours > 12 THEN hours - 12 ELSE hours
        activeHour == IF getHour(hourIndex) = <<>> THEN TONE_CLOCK_HOURS[1] ELSE getHour(hourIndex)
        transpositionIndex == (minutes \div 15) % 4
        tessellation == activeHour.tessellation
    IN [activeHour |-> activeHour,
        currentTrichord |-> IF tessellation # <<>>
                            THEN tessellation[transpositionIndex + 1]
                            ELSE generateTrichord(activeHour, transpositionIndex * 3),
        tessellation |-> tessellation,
        transpositionIndex |-> transpositionIndex,
        noteIndex |-> seconds % 3]

\* The helpers one mapTimeToToneClock call invokes, in order
mapTimeToToneClockCalls(hours, minutes, seconds) ==
    LET hourIndex == IF hours = 0 THEN 12 ELSE IF hours > 12 THEN hours - 12 ELSE hours
        activeHour == IF getHour(hourIndex) = <<>> THEN TONE_CLOCK_HOURS[1] ELSE getHour(hourIndex)
    IN <<"getHour", "tessellate">> \o
       (IF tessellate(activeHour) # <<>> THEN <<>> ELSE <<"generateTrichord">>)

HOUR_X_TETRACHORD == <<0, 3, 6, 9>>

\* tessellateHourX with the third tetrachord repeating the first
tessellateHourX_Repeats == << <<0, 3, 6, 9>>, <<1, 4, 7, 10>>, <<3, 6, 9, 0>> >>

tessellateHourX == << <<0, 3, 6, 9>>, <<1, 4, 7, 10>>, <<2, 5, 8, 11>> >>

----------------------------------------------------------------------------
(* Presets and the store *)

Layers == {"hour", "minute", "second"}

\* Library presets of a layer (presets.ts); a preset is its id, as the list of
\* its parts, and the value of the parameter being edited
LibraryIds(layer) ==
    CASE layer = "hour"   -> {"H01", "H02"}
      [] layer = "minute" -> {"M01", "M02"}
      [] OTHER            -> {"S01", "S02"}

LibraryPreset(name) == [id |-> <<name>>, value |-> 0]

\* defaultHourPreset etc.: getPresetsByLayer(layer)[0]
defaultPreset(layer) ==
    LibraryPreset(CASE layer = "hour" -> "H01" [] layer = "minute" -> "M01" [] OTHER -> "S01")
NoPreset == [id |-> <<>>, value |-> 0]
ParamValues == {1, 2}

\* currentPreset.id.replace(/^CUSTOM_/, '')
StripCustom(id) == IF id # <<>> /\ Head(id) = "CUSTOM_" THEN Tail(id) ELSE id

\* currentPreset.name.replace(/( \(Modified\))+$/, ''), the name being the
\* list of its parts
RECURSIVE StripModified(_)
StripModified(name) ==
    IF name # <<>> /\ name[Len(name)] = " (Modified)"
    THEN StripModified(SubSeq(name, 1, Len(name) - 1))
    ELSE name

\* updatePresetParameter: `${baseName} (Modified)`
updatedName(name) == StripModified(name) \o <<" (Modified)">>

updatedPreset_KeepsPrefix(currentPreset, value) ==
    [id |-> <<"CUSTOM_">> \o currentPreset.id, value |-> value]

\* updatePresetParameter: the preset the store writes back
updatedPreset(currentPreset, value) ==
    [id |-> <<"CUSTOM_">> \o StripCustom(currentPreset.id), value |-> value]

----------------------------------------------------------------------------
(* AudioEngine: each operation maps the engine/App state e it finds to the
   state it leaves.  e has the fields isStarted, channels, creating,
   connected, nextChain, droneTimers, prevPresets, submitted, and the call
   logs engCalls and synthCalls. *)

\* defaultArpSettings (the fields that select the sequence)
defaultArpSettings == [enabled |-> FALSE, pattern |-> "up"]

\* this.pattern === null
NoPattern == [live |-> FALSE, values |-> <<>>, type |-> "up", index |-> 0]

NoChannel == [chain |-> 0, preset |-> NoPreset, activeNotes |-> <<>>, volume |-> 0]

\* preset.volume of the library presets; a tweaked copy keeps it
presetVolume(p) ==
    LET base == StripCustom(p.id)
    IN CASE base = <<"H01">> -> -12 [] base = <<"H02">> -> -15
         [] base = <<"M01">> -> -10 [] base = <<"M02">> -> -8
         [] base = <<"S01">> -> -18 [] base = <<"S02">> -> -22
         [] OTHER -> -12

SynthCall(e, chain, op, notes) ==
    [e EXCEPT !.synthCalls = Append(@, [chain |-> chain, op |-> op, notes |-> notes])]

\* disposeChannel(channelId)
disposeChannel(e, channelId) ==
    LET channel == e.channels[channelId]
    IN IF channel.chain = 0 THEN e
       ELSE LET e1 == IF Len(channel.activeNotes) > 0
                      THEN SynthCall(e, channel.chain, "triggerRelease", channel.activeNotes)
                      ELSE e
            IN [e1 EXCEPT !.connected = @ \ {[chain |-> channel.chain, id |-> channelId]},
                          !.channels[channelId] = NoChannel]

\* createChannel(channelId, preset) up to its "await reverb.generate()"
createChannelBegin(e, channelId, p) ==
    LET e1 == disposeChannel(e, channelId)
    IN [e1 EXCEPT !.creating = @ \cup {[chain |-> e1.nextChain, id |-> channelId, preset |-> p]},
                  !.nextChain = @ + 1]

\* createChannel after the await: connect the chain and store the channel
createChannelFinish(e, c) ==
    [e EXCEPT !.creating = @ \ {c},
              !.connected = @ \cup {[chain |-> c.chain, id |-> c.id]},
              !.channels[c.id] = [chain |-> c.chain, preset |-> c.preset, activeNotes |-> <<>>,
                                  volume |-> presetVolume(c.preset)]]

\* The connect calls of createChannel: each node feeds the next one
connectChain == <<"synth", "filter", "gate", "tremolo", "delay", "reverb", "volume", "masterVolume">>

\* createChannel when createSynth or a node constructor before the await
\* throws: the outer catch logs, the old channel is already disposed
createChannelThrows(e, channelId) == disposeChannel(e, channelId)

\* createChannel when a node constructor or connect after the await throws:
\* the outer catch logs and nothing is stored
createChannelFinishThrows(e, c) == [e EXCEPT !.creating = @ \ {c}]

\* playNote(channelId, note, duration)
playNote(e, channelId, note) ==
    LET channel == e.channels[channelId]
    IN IF channel.chain = 0 \/ ~e.isStarted THEN e
       ELSE SynthCall(e, channel.chain, "triggerAttackRelease", <<note>>)

\* playChord(channelId, notes, duration)
playChord(e, channelId, notes) ==
    LET channel == e.channels[channelId]
    IN IF channel.chain = 0 \/ ~e.isStarted THEN e
       ELSE SynthCall(e, channel.chain, "triggerAttackRelease", notes)

\* triggerAttack without the isStarted test
triggerAttack_BeforeStart(e, channelId, note) ==
    LET channel == e.channels[channelId]
    IN IF channel.chain = 0 THEN e
       ELSE [SynthCall(e, channel.chain, "triggerAttack", <<note>>)
                EXCEPT !.channels[channelId].activeNotes = Append(@, note)]

\* triggerAttack(channelId, note)
triggerAttack(e, channelId, note) ==
    LET channel == e.channels[channelId]
    IN IF channel.chain = 0 \/ ~e.isStarted THEN e
       ELSE [SynthCall(e, channel.chain, "triggerAttack", <<note>>)
                EXCEPT !.channels[channelId].activeNotes = Append(@, note)]

\* triggerAttackChord(channelId, notes)
triggerAttackChord(e, channelId, notes) ==
    LET channel == e.channels[channelId]
    IN IF channel.chain = 0 \/ ~e.isStarted THEN e
       ELSE [SynthCall(e, channel.chain, "triggerAttack", notes)
                EXCEPT !.channels[channelId].activeNotes = @ \o notes]

triggerRelease_KeepsNotes(e, channelId) ==
    LET channel == e.channels[channelId]
    IN IF channel.chain = 0 \/ ~e.isStarted THEN e
       ELSE IF Len(channel.activeNotes) > 0
            THEN SynthCall(e, channel.chain, "triggerRelease", channel.activeNotes)
            ELSE e

\* triggerRelease(channelId)
triggerRelease(e, channelId) ==
    LET channel == e.channels[channelId]
    IN IF channel.chain = 0 \/ ~e.isStarted THEN e
       ELSE IF Len(channel.activeNotes) > 0
            THEN [SynthCall(e, channel.chain, "triggerRelease", channel.activeNotes)
                     EXCEPT !.channels[channelId].activeNotes = <<>>]
            ELSE e

\* triggerReleaseNotes(channelId, notes)
triggerReleaseNotes(e, channelId, notes) ==
    LET channel == e.channels[channelId]
    IN IF channel.chain = 0 \/ ~e.isStarted THEN e
       ELSE [SynthCall(e, channel.chain, "triggerRelease", notes)
                EXCEPT !.channels[channelId].activeNotes =
                          SelectSeq(@, LAMBDA n : \A i \in 1..Len(notes) : notes[i] # n)]

updateSynthParams_ReleasesNotes(e, channelId, p) ==
    IF e.channels[channelId].chain = 0 THEN e
    ELSE [e EXCEPT !.channels[channelId].preset = p,
                   !.channels[channelId].activeNotes = <<>>]

\* updateSynthParams(channelId, preset)
updateSynthParams(e, channelId, p) ==
    IF e.channels[channelId].chain = 0 THEN e
    ELSE [e EXCEPT !.channels[channelId].preset = p]

----------------------------------------------------------------------------
(* Arpeggiator.  A note is <<name, octave>>; its string is name followed by
   the octave digit. *)

\* UTF-16 code units of the note string, which Array.prototype.sort compares
NoteCodes(note) ==
    LET name == note[1]
        letter == CASE name \in {"A", "A#"} -> 65 [] name = "B" -> 66
                    [] name \in {"C", "C#"} -> 67 [] name \in {"D", "D#"} -> 68
                    [] name = "E" -> 69 [] name \in {"F", "F#"} -> 70 [] OTHER -> 71
        sharp == IF name \in {"A#", "C#", "D#", "F#", "G#"} THEN <<35>> ELSE <<>>
    IN <<letter>> \o sharp \o <<48 + note[2]>>

RECURSIVE LexLess(_, _)
LexLess(a, b) ==
    IF a = <<>> THEN b # <<>>
    ELSE IF b = <<>> THEN FALSE
    ELSE IF Head(a) # Head(b) THEN Head(a) < Head(b)
    ELSE LexLess(Tail(a), Tail(b))

\* Insertion of x behind the elements that do not sort after it
RECURSIVE SortInsert(_, _)
SortInsert(sorted, x) ==
    IF sorted = <<>> THEN <<x>>
    ELSE IF LexLess(NoteCodes(x), NoteCodes(Head(sorted))) THEN <<x>> \o sorted
    ELSE <<Head(sorted)>> \o SortInsert(Tail(sorted), x)

\* [...notes].sort(): the default, string order
RECURSIVE jsSort(_)
jsSort(notes) ==
    IF notes = <<>> THEN <<>>
    ELSE SortInsert(jsSort(SubSeq(notes, 1, Len(notes) - 1)), notes[Len(notes)])

Reverse(seq) == [i \in 1..Len(seq) |-> seq[Len(seq) + 1 - i]]

\* The shuffle loop from i down to 1 (0-based), js[i] being
\* Math.floor(Math.random() * (i + 1))
RECURSIVE FisherYates(_, _, _)
FisherYates(shuffled, i, js) ==
    IF i < 1 THEN shuffled
    ELSE FisherYates([shuffled EXCEPT ![i + 1] = shuffled[js[i] + 1],
                                      ![js[i] + 1] = shuffled[i + 1]], i - 1, js)

\* The draws of Math.random() one shuffle of n notes can make
ShuffleDraws(n) == {js \in [1..(n - 1) -> 0..(n - 1)] : \A i \in 1..(n - 1) : js[i] <= i}

\* generateSequence() with the peaks played twice
generateSequence_RepeatsPeaks(notes, pattern, js) ==
    IF Len(notes) = 0 THEN <<>>
    ELSE LET sorted == jsSort(notes)
             reversed == Reverse(sorted)
         IN CASE pattern = "up" -> sorted
              [] pattern = "down" -> reversed
              [] pattern = "upDown" ->
                    IF Len(sorted) <= 2 THEN sorted
                    ELSE sorted \o Reverse(SubSeq(sorted, 2, Len(sorted)))
              [] pattern = "downUp" ->
                    IF Len(sorted) <= 2 THEN reversed
                    ELSE reversed \o Reverse(SubSeq(reversed, 2, Len(reversed)))
              [] pattern = "random" -> FisherYates(sorted, Len(sorted) - 1, js)
              [] OTHER -> sorted

\* generateSequence()
generateSequence(notes, pattern, js) ==
    IF Len(notes) = 0 THEN <<>>
    ELSE LET sorted == jsSort(notes)
             reversed == Reverse(sorted)
         IN CASE pattern = "up" -> sorted
              [] pattern = "down" -> reversed
              [] pattern = "upDown" ->
                    IF Len(sorted) <= 2 THEN sorted
                    ELSE sorted \o Reverse(SubSeq(sorted, 2, Len(sorted) - 1))
              [] pattern = "downUp" ->
                    IF Len(sorted) <= 2 THEN reversed
                    ELSE reversed \o Reverse(SubSeq(reversed, 2, Len(reversed) - 1))
              [] pattern = "random" -> FisherYates(sorted, Len(sorted) - 1, js)
              [] OTHER -> sorted

\* stop() that leaves the running flag set
arpStop_KeepsRunning(e) ==
    [e EXCEPT !.arpeggiator.pattern = NoPattern, !.arpPlayed = <<>>]

\* Arpeggiator.stop()
arpStop(e) ==
    [e EXCEPT !.arpeggiator.pattern = NoPattern, !.arpeggiator.isRunning = FALSE,
              !.arpPlayed = <<>>]

\* start() without the stop() that cleans up the existing pattern: a pattern
\* that was live stays scheduled with nothing referring to it
arpStart_KeepsPattern(e, js) ==
    LET a == e.arpeggiator
    IN IF Len(a.notes) = 0 \/ ~a.settings.enabled THEN e
       ELSE LET sequence == generateSequence(a.notes, a.settings.pattern, js)
            IN [e EXCEPT
                   !.arpeggiator.orphans = IF a.pattern.live THEN Append(@, a.pattern) ELSE @,
                   !.arpeggiator.pattern =
                       [live |-> TRUE, values |-> sequence, index |-> 0,
                        type |-> IF a.settings.pattern = "random" THEN "random" ELSE "up"],
                   !.arpeggiator.isRunning = TRUE,
                   !.arpPlayed = <<>>]

\* Arpeggiator.start()
arpStart(e, js) ==
    LET a == e.arpeggiator
    IN IF Len(a.notes) = 0 \/ ~a.settings.enabled THEN e
       ELSE LET sequence == generateSequence(a.notes, a.settings.pattern, js)
            IN [arpStop(e) EXCEPT
                   !.arpeggiator.pattern =
                       [live |-> TRUE, values |-> sequence, index |-> 0,
                        type |-> IF a.settings.pattern = "random" THEN "random" ELSE "up"],
                   !.arpeggiator.isRunning = TRUE,
                   !.arpPlayed = <<>>]

\* Arpeggiator.restart()
arpRestart(e, js) ==
    IF e.arpeggiator.isRunning THEN arpStart(arpStop(e), js) ELSE e

\* Arpeggiator.setNotes(notes)
setNotes(e, notes, js) ==
    LET e1 == [e EXCEPT !.arpeggiator.notes = notes]
    IN IF e.arpeggiator.pattern.live /\ e.arpeggiator.isRunning THEN arpRestart(e1, js) ELSE e1

\* updateSettings that starts whenever the settings given have enabled set
updateSettings_StartsWhenEnabled(e, settings, js) ==
    LET wasEnabled == e.arpeggiator.settings.enabled
        merged == [enabled |-> IF "enabled" \in settings.keys THEN settings.enabled
                               ELSE e.arpeggiator.settings.enabled,
                   pattern |-> IF "pattern" \in settings.keys THEN settings.pattern
                               ELSE e.arpeggiator.settings.pattern]
        e1 == [e EXCEPT !.arpeggiator.settings = merged]
        e2 == IF "enabled" \in settings.keys
              THEN IF settings.enabled THEN arpStart(e1, js)
                   ELSE IF ~settings.enabled /\ wasEnabled THEN arpStop(e1)
                   ELSE e1
              ELSE e1
    IN IF e2.arpeggiator.isRunning /\ "pattern" \in settings.keys THEN arpRestart(e2, js) ELSE e2

\* Arpeggiator.updateSettings(settings): settings.keys are the fields given
updateSettings(e, settings, js) ==
    LET wasEnabled == e.arpeggiator.settings.enabled
        merged == [enabled |-> IF "enabled" \in settings.keys THEN settings.enabled
                               ELSE e.arpeggiator.settings.enabled,
                   pattern |-> IF "pattern" \in settings.keys THEN settings.pattern
                               ELSE e.arpeggiator.settings.pattern]
        e1 == [e EXCEPT !.arpeggiator.settings = merged]
        e2 == IF "enabled" \in settings.keys
              THEN IF settings.enabled /\ ~wasEnabled THEN arpStart(e1, js)
                   ELSE IF ~settings.enabled /\ wasEnabled THEN arpStop(e1)
                   ELSE e1
              ELSE e1
    IN IF e2.arpeggiator.isRunning /\ "pattern" \in settings.keys THEN arpRestart(e2, js) ELSE e2

\* The Tone.Pattern objects that are started and not stopped: 0 is
\* this.pattern, i > 0 the i-th pattern that nothing refers to any more
Scheduled(a) == (IF a.pattern.live THEN {0} ELSE {}) \cup (1..Len(a.orphans))

\* One event of a scheduled Tone.Pattern: type 'up' walks the values
\* cyclically, type 'random' draws an index at every event; k is the draw
patternEvent(e, src, k) ==
    LET pat == IF src = 0 THEN e.arpeggiator.pattern ELSE e.arpeggiator.orphans[src]
        n == Len(pat.values)
        index == IF pat.type = "random" THEN k % n ELSE pat.index
        e1 == [e EXCEPT !.arpPlayed = Append(@, pat.values[index + 1])]
    IN IF src = 0 THEN [e1 EXCEPT !.arpeggiator.pattern.index = (index + 1) % n]
       ELSE [e1 EXCEPT !.arpeggiator.orphans[src].index = (index + 1) % n]

----------------------------------------------------------------------------
(* The AudioEngine's dedicated arpeggiator voice *)

\* The chain playArpNote builds, as its constructors are given it
NewArpSynth(e) ==
    [preset |-> <<>>, portamento |-> e.arpVoice.arpPortamento,
     volume |-> e.arpVoice.arpVolumeValue]

\* setArpPortamento(timeInSeconds), in ms
setArpPortamento(e, time) ==
    LET e1 == [e EXCEPT !.arpVoice.arpPortamento = time]
    IN IF e.arpVoice.arpSynth = <<>> THEN e1
       ELSE [e1 EXCEPT !.arpVoice.arpSynth.portamento = time]

\* setArpVolume(volumeDb)
setArpVolume(e, volumeDb) ==
    LET value == IF volumeDb <= -60 THEN NegInfinity ELSE Max(-60, Min(6, volumeDb))
        e1 == [e EXCEPT !.arpVoice.arpVolumeValue = value]
    IN IF e.arpVoice.arpSynth = <<>> THEN e1
       ELSE [e1 EXCEPT !.arpVoice.arpSynth.volume = value]

\* updateArpParams(preset)
updateArpParams(e, p) ==
    LET e1 == [e EXCEPT !.arpVoice.arpCachedPreset = p]
    IN IF e.arpVoice.arpSynth = <<>> THEN e1
       ELSE [e1 EXCEPT !.arpVoice.arpSynth.preset = p]

\* playArpNote that builds the voice without applying the cached preset
playArpNote_SkipsCachedPreset(e, note) ==
    IF ~e.isStarted THEN e
    ELSE LET e1 == IF e.arpVoice.arpSynth # <<>> THEN e
                   ELSE [e EXCEPT !.arpVoice.arpSynth = NewArpSynth(e)]
         IN SynthCall(e1, 0, "triggerAttackRelease", <<note>>)

\* playArpNote(note, duration); the arp synth is chain 0 in the call log
playArpNote(e, note) ==
    IF ~e.isStarted THEN e
    ELSE LET e1 == IF e.arpVoice.arpSynth # <<>> THEN e
                   ELSE LET built == [e EXCEPT !.arpVoice.arpSynth = NewArpSynth(e)]
                        IN IF built.arpVoice.arpCachedPreset # <<>>
                           THEN updateArpParams(built, built.arpVoice.arpCachedPreset)
                           ELSE built
         IN SynthCall(e1, 0, "triggerAttackRelease", <<note>>)

----------------------------------------------------------------------------
(* App: the functions the handlers and effects are built from *)

EngCall(e, op, layer, p) ==
    [e EXCEPT !.engCalls = Append(@, [op |-> op, id |-> layer, preset |-> p]),
              !.submitted[layer] = p]

\* startHourDrone, reading timeDilator.getTime()
startHourDrone(e, time) ==
    LET toneState == mapTimeToToneClock(time.hours, time.minutes, time.seconds)
        droneNotes == [i \in 1..Len(toneState.currentTrichord) |->
                          pitchClassToNote(toneState.currentTrichord[i], 3)]
    IN triggerAttackChord(e, "hour", droneNotes)

stopHourDrone(e) == triggerRelease(e, "hour")

\* handleTimeEvent of the 'app-audio' subscription
handleTimeEvent(e, type, value, time, playing, started) ==
    IF ~playing \/ ~started THEN e
    ELSE LET toneState == mapTimeToToneClock(time.hours, time.minutes, time.seconds)
         IN CASE type = "second" ->
                   playNote(e, "second", pitchClassToNote(toneState.currentTrichord[(value % 3) + 1], 5))
              [] type = "minute" ->
                   playNote(e, "minute", pitchClassToNote(toneState.currentTrichord[2], 4))
              [] OTHER ->
                   [stopHourDrone(e) EXCEPT !.droneTimers = @ + 1]

IdChanged_ByBaseId(id, prev) == StripCustom(id) # StripCustom(prev)

\* hourPreset.id !== prevPresets.current.hour
IdChanged(id, prev) == id # prev

\* The "Sync <Layer> Preset" effect once audioStarted is true
presetEffect(e, layer, p, playing) ==
    LET e1 == IF IdChanged(p.id, e.prevPresets[layer])
              THEN [createChannelBegin(EngCall(e, "createChannel", layer, p), layer, p)
                       EXCEPT !.prevPresets[layer] = p.id]
              ELSE updateSynthParams(EngCall(e, "updateSynthParams", layer, p), layer, p)
    IN IF layer = "hour" /\ playing
       THEN [stopHourDrone(e1) EXCEPT !.droneTimers = @ + 1]
       ELSE e1

\* The three preset effects, in declaration order
presetEffects(e, presets, playing) ==
    presetEffect(presetEffect(presetEffect(e, "hour", presets["hour"], playing),
                              "minute", presets["minute"], playing),
                 "second", presets["second"], playing)

\* The play/stop branch of handlePlay, with the isPlaying its closure holds
togglePlay(e, wasPlaying) ==
    IF ~wasPlaying THEN [e EXCEPT !.droneTimers = @ + 1] ELSE stopHourDrone(e)

\* Map.set and Map.delete on the time engine's callbacks; CbIndex is the
\* position of the key, 0 when it is absent
CbIndex(cbs, id) ==
    IF \E i \in 1..Len(cbs) : cbs[i].id = id
    THEN CHOOSE i \in 1..Len(cbs) : cbs[i].id = id ELSE 0

CallbacksSet(cbs, id, cb) ==
    IF CbIndex(cbs, id) = 0 THEN Append(cbs, [id |-> id, cb |-> cb])
    ELSE [cbs EXCEPT ![CbIndex(cbs, id)].cb = cb]

CallbacksDelete(cbs, id) == SelectSeq(cbs, LAMBDA c : c.id # id)

\* The draws of a start() whose pattern is not 'random': none are consumed
NoDraws == <<>>

\* updateArpNotes of the arpeggiator effect, reading timeDilator.getTime()
updateArpNotes(e, time) ==
    LET toneState == mapTimeToToneClock(time.hours, time.minutes, time.seconds)
        notes == [i \in 1..Len(toneState.currentTrichord) |->
                     pitchClassToNote(toneState.currentTrichord[i], 4)]
    IN setNotes(e, notes, NoDraws)

\* The subscriber the arpeggiator effect registers as 'arpeggiator-notes'
arpHandleTimeEvent(e, type, time) ==
    IF type \in {"minute", "hour"} THEN updateArpNotes(e, time) ELSE e

\* The effect on [isPlaying, audioStarted], run when a render has changed
\* one of them: the cleanup of its previous run (which returned before
\* subscribing when it was not playing), then its body.  The result is the
\* engine state with the time engine's callbacks.
arpPlayEffect(e, cbs, was, now, time) ==
    IF was = now THEN [e |-> e, callbacks |-> cbs]
    ELSE LET wasActive == was.isPlaying /\ was.audioStarted
             e1 == IF wasActive THEN arpStop(e) ELSE e
             cbs1 == IF wasActive THEN CallbacksDelete(cbs, "arpeggiator-notes") ELSE cbs
         IN IF ~now.isPlaying \/ ~now.audioStarted
            THEN [e |-> arpStop(e1), callbacks |-> cbs1]
            ELSE \* updateArpNotes() first, then arpeggiator.start() on what it left
                 CHOOSE fx \in {[e |-> arpStart(noted, NoDraws),
                                 callbacks |-> CallbacksSet(cbs1, "arpeggiator-notes",
                                                            "arpHandleTimeEvent")] :
                                    noted \in {updateArpNotes(e1, time)}} : TRUE

\* The effect on [arpSettings]: updateSettings({ ...arpSettings, enabled: true })
\* and setArpPortamento(arpSettings.glissando / 1000)
arpSettingsEffect(e, arpSettings) ==
    setArpPortamento(
        updateSettings(e, [keys |-> {"enabled", "pattern"}, enabled |-> TRUE,
                           pattern |-> arpSettings.pattern], NoDraws),
        arpSettings.glissando)

\* The effect on [arpPreset, audioStarted]; the store's arpPreset is
\* defaultArpPreset = getPresetsByLayer('second')[0]
arpPresetEffect(e, started) ==
    IF ~started THEN e ELSE updateArpParams(e, defaultPreset("second").id)

----------------------------------------------------------------------------
(* TimeDilator *)

SecondMs == 1000
MinuteMs == 60000
HourMs == 3600000
\* Real milliseconds between two update() calls (now - lastRealTime)
RealDeltas == {500, 1000, 61000}
\* Arguments of setSpeed, in tenths
SpeedInputs == {20}
\* Virtual clock at construction (Date.now())
StartTimes == {43199000, 43259000}

SubscriberIds == {"app-audio", "clock-display"}
\* What a subscribed callback does when invoked: it returns, throws, calls
\* timeDilator.stop(), or is the App's handleTimeEvent
CallbackKinds == {"returns", "throws", "stops"}

\* The number NaN; Math.min and Math.max return NaN when an argument is NaN
NaN == 1000000
mathMin(a, b) == IF NaN \in {a, b} THEN NaN ELSE Min(a, b)
mathMax(a, b) == IF NaN \in {a, b} THEN NaN ELSE Max(a, b)

\* updateStateFromTimestamp: calendar decomposition of the virtual timestamp
TimeFields(t) ==
    LET h24 == (t \div HourMs) % 24
    IN [hours        |-> IF h24 % 12 = 0 THEN 12 ELSE h24 % 12,
        minutes      |-> (t \div MinuteMs) % 60,
        seconds      |-> (t \div SecondMs) % 60,
        milliseconds |-> t % SecondMs]

updateStateFromTimestamp(st, t) ==
    LET f == TimeFields(t)
    IN [st EXCEPT !.hours = f.hours, !.minutes = f.minutes,
                  !.seconds = f.seconds, !.milliseconds = f.milliseconds]

\* The state an operation finds, as the engine/App operations take it
Env ==
    [isStarted |-> isStarted, channels |-> channels, creating |-> creating,
     connected |-> connected, nextChain |-> nextChain, masterVolume |-> masterVolume,
     droneTimers |-> droneTimers, arpeggiator |-> arpeggiator, arpPlayed |-> arpPlayed,
     arpVoice |-> arpVoice,
     prevPresets |-> prevPresets, submitted |-> submitted,
     engCalls |-> <<>>, synthCalls |-> <<>>]

\* The state an operation leaves
Leave(e, op) ==
    \E left \in {e} :
        /\ channels' = left.channels
        /\ creating' = left.creating
        /\ connected' = left.connected
        /\ nextChain' = left.nextChain
        /\ masterVolume' = left.masterVolume
        /\ arpeggiator' = left.arpeggiator
        /\ arpPlayed' = left.arpPlayed
        /\ arpVoice' = left.arpVoice
        /\ droneTimers' = left.droneTimers
        /\ prevPresets' = left.prevPresets
        /\ submitted' = left.submitted
        /\ engCalls' = left.engCalls
        /\ synthCalls' = left.synthCalls
        /\ lastOp' = op

\* The state left by an operation whose calls no property refers to
LeaveUnlogged(e) ==
    Leave([e EXCEPT !.engCalls = <<>>, !.synthCalls = <<>>], [op |-> "other"])

EventValue(type, time) ==
    CASE type = "second" -> time.seconds [] type = "minute" -> time.minutes [] OTHER -> time.hours

\* emit(event): Map.forEach over the callbacks, in insertion order.  A
\* callback that throws aborts the forEach (acc.threw); a callback that calls
\* timeDilator.stop() clears the running flag and the interval.
RECURSIVE Deliver(_, _, _)
Deliver(cbs, type, acc) ==
    IF cbs = <<>> THEN acc
    ELSE LET c == Head(cbs)
             a1 == [acc EXCEPT !.delivered =
                        Append(@, [id |-> c.id, cb |-> c.cb, type |-> type,
                                   afterStop |-> ~acc.isRunning])]
         IN CASE c.cb = "throws" -> [a1 EXCEPT !.threw = TRUE]
              [] c.cb = "stops"  -> Deliver(Tail(cbs), type,
                                        [a1 EXCEPT !.isRunning = FALSE,
                                                   !.intervals = IF a1.intervalId THEN @ - 1 ELSE @,
                                                   !.intervalId = FALSE])
              [] c.cb = "handleTimeEvent" ->
                    Deliver(Tail(cbs), type,
                        [a1 EXCEPT !.e = handleTimeEvent(@, type, EventValue(type, acc.time),
                                                         acc.time, isPlaying, audioStarted)])
              [] c.cb = "arpHandleTimeEvent" ->
                    Deliver(Tail(cbs), type, [a1 EXCEPT !.e = arpHandleTimeEvent(@, type, acc.time)])
              [] OTHER           -> Deliver(Tail(cbs), type, a1)

emit(cbs, type, acc) == Deliver(cbs, type, [acc EXCEPT !.emitted = Append(@, type)])

\* One "if (field !== last) { emit; last = field }" block of update()
EmitIfChanged(cbs, type, acc) ==
    IF acc.threw \/ EventValue(type, acc.time) = acc.last[type] THEN acc
    ELSE LET a == emit(cbs, type, acc)
         IN IF a.threw THEN a ELSE [a EXCEPT !.last[type] = EventValue(type, acc.time)]

\* The three blocks of update(), in source order
EmitTransitions(cbs, acc) ==
    EmitIfChanged(cbs, "hour", EmitIfChanged(cbs, "minute", EmitIfChanged(cbs, "second", acc)))

\* The tick log describes the update() that just ran; any other call clears it
NoTick ==
    /\ emitted' = <<>> /\ delivered' = <<>> /\ threw' = FALSE
    /\ tickPrev' = [second |-> -1, minute |-> -1, hour |-> -1]

\* No method of the time engine runs but subscribe and unsubscribe
ClockStandsStill ==
    /\ NoTick
    /\ UNCHANGED <<currentVirtualTime, state, intervalId, intervals,
                   lastSecond, lastMinute, lastHour, ticks, sinceLastRealTime>>

TimeStandsStill ==
    /\ ClockStandsStill
    /\ UNCHANGED callbacks

TdInitAt(t) ==
    /\ currentVirtualTime = t
    /\ state = updateStateFromTimestamp(
                  [hours |-> 12, minutes |-> 0, seconds |-> 0, milliseconds |-> 0,
                   speed |-> 10, isRunning |-> FALSE, isReverse |-> FALSE],
                  currentVirtualTime)
    /\ intervalId = FALSE
    /\ intervals = 0
    /\ callbacks = <<>>
    /\ lastSecond = -1 /\ lastMinute = -1 /\ lastHour = -1
    /\ emitted = <<>> /\ delivered = <<>>
    /\ tickPrev = [second |-> -1, minute |-> -1, hour |-> -1]
    /\ threw = FALSE
    /\ ticks = 0
    /\ sinceLastRealTime = 0

TdInit == \E t \in StartTimes : TdInitAt(t)

\* subscribe that adds an entry on every call
subscribe_Appends(id, cb) ==
    /\ callbacks' = Append(callbacks, [id |-> id, cb |-> cb])
    /\ NoTick
    /\ UNCHANGED <<currentVirtualTime, state, intervalId, intervals,
                   lastSecond, lastMinute, lastHour, ticks, sinceLastRealTime>>
    /\ UNCHANGED <<engVars, appVars, arpVars>>

\* subscribe(id, callback): Map.set keeps the position of an existing key
subscribe(id, cb) ==
    /\ callbacks' = CallbacksSet(callbacks, id, cb)
    /\ NoTick
    /\ UNCHANGED <<currentVirtualTime, state, intervalId, intervals,
                   lastSecond, lastMinute, lastHour, ticks, sinceLastRealTime>>
    /\ UNCHANGED <<engVars, appVars, arpVars>>

\* unsubscribe(id): Map.delete
unsubscribe(id) ==
    /\ callbacks' = CallbacksDelete(callbacks, id)
    /\ NoTick
    /\ UNCHANGED <<currentVirtualTime, state, intervalId, intervals,
                   lastSecond, lastMinute, lastHour, ticks, sinceLastRealTime>>
    /\ UNCHANGED <<engVars, appVars, arpVars>>

\* setSpeed(speed), speed in tenths: Math.max(0.1, Math.min(10, speed))
setSpeed(s) ==
    /\ state' = [state EXCEPT !.speed = mathMax(1, mathMin(100, s))]
    /\ NoTick
    /\ UNCHANGED <<currentVirtualTime, intervalId, intervals, callbacks,
                   lastSecond, lastMinute, lastHour, ticks, sinceLastRealTime>>
    /\ UNCHANGED <<engVars, appVars, arpVars>>

\* setReverse storing the opposite flag
setReverse_Inverted(b) ==
    /\ state' = [state EXCEPT !.isReverse = ~b]
    /\ NoTick
    /\ UNCHANGED <<currentVirtualTime, intervalId, intervals, callbacks,
                   lastSecond, lastMinute, lastHour, ticks, sinceLastRealTime>>
    /\ UNCHANGED <<engVars, appVars, arpVars>>

setReverse(b) ==
    /\ state' = [state EXCEPT !.isReverse = b]
    /\ NoTick
    /\ UNCHANGED <<currentVirtualTime, intervalId, intervals, callbacks,
                   lastSecond, lastMinute, lastHour, ticks, sinceLastRealTime>>
    /\ UNCHANGED <<engVars, appVars, arpVars>>

\* start() that leaves lastRealTime as the last tick set it
start_KeepsLastRealTime ==
    /\ IF state.isRunning
       THEN UNCHANGED <<state, intervalId, intervals, lastSecond, lastMinute, lastHour>>
       ELSE /\ state' = [state EXCEPT !.isRunning = TRUE]
            /\ lastSecond' = state.seconds
            /\ lastMinute' = state.minutes
            /\ lastHour' = state.hours
            /\ intervalId' = TRUE
            /\ intervals' = (IF intervalId THEN intervals - 1 ELSE intervals) + 1
    /\ NoTick
    /\ UNCHANGED <<currentVirtualTime, callbacks, ticks, sinceLastRealTime>>
    /\ UNCHANGED <<engVars, appVars, arpVars>>

start ==
    /\ IF state.isRunning
       THEN UNCHANGED <<state, intervalId, intervals, lastSecond, lastMinute, lastHour,
                        sinceLastRealTime>>
       ELSE /\ sinceLastRealTime' = 0
            /\ state' = [state EXCEPT !.isRunning = TRUE]
            /\ lastSecond' = state.seconds
            /\ lastMinute' = state.minutes
            /\ lastHour' = state.hours
            /\ intervalId' = TRUE
            /\ intervals' = (IF intervalId THEN intervals - 1 ELSE intervals) + 1
    /\ NoTick
    /\ UNCHANGED <<currentVirtualTime, callbacks, ticks>>
    /\ UNCHANGED <<engVars, appVars, arpVars>>

\* stop() that leaves the timer scheduled
stop_KeepsTimer ==
    /\ state' = [state EXCEPT !.isRunning = FALSE]
    /\ NoTick
    /\ UNCHANGED <<currentVirtualTime, callbacks, lastSecond, lastMinute, lastHour, ticks,
                   sinceLastRealTime, intervalId, intervals>>
    /\ UNCHANGED <<engVars, appVars, arpVars>>

stop ==
    /\ state' = [state EXCEPT !.isRunning = FALSE]
    /\ intervalId' = FALSE
    /\ intervals' = IF intervalId THEN intervals - 1 ELSE intervals
    /\ NoTick
    /\ UNCHANGED <<currentVirtualTime, callbacks, lastSecond, lastMinute, lastHour, ticks,
                   sinceLastRealTime>>
    /\ UNCHANGED <<engVars, appVars, arpVars>>

\* reset(): stop(), the virtual clock set to Date.now(), start() if it was running
reset(now) ==
    LET st == updateStateFromTimestamp(state, now)
    IN /\ currentVirtualTime' = now
       /\ IF state.isRunning
          THEN /\ sinceLastRealTime' = 0
               /\ state' = [st EXCEPT !.isRunning = TRUE]
               /\ lastSecond' = st.seconds
               /\ lastMinute' = st.minutes
               /\ lastHour' = st.hours
               /\ intervalId' = TRUE
               /\ intervals' = (IF intervalId THEN intervals - 1 ELSE intervals) + 1
          ELSE /\ state' = [st EXCEPT !.isRunning = FALSE]
               /\ intervalId' = FALSE
               /\ intervals' = IF intervalId THEN intervals - 1 ELSE intervals
               /\ UNCHANGED <<lastSecond, lastMinute, lastHour, sinceLastRealTime>>
       /\ NoTick
       /\ UNCHANGED <<callbacks, ticks>>
       /\ UNCHANGED <<engVars, appVars, arpVars>>

\* deltaVirtual without the speed multiplier
deltaVirtual_IgnoresSpeed(deltaReal, speed) == deltaReal

\* deltaVirtual = deltaReal * this.state.speed, speed in tenths
deltaVirtual(deltaReal, speed) == (deltaReal * speed) \div 10

\* update(): the setInterval callback, run after sincePrevious more real ms.
\* deltaReal = now - this.lastRealTime; this.lastRealTime = now.
updateAs(sincePrevious, op) ==
    /\ intervals > 0
    /\ ticks < MaxTicks
    /\ ticks' = ticks + 1
    /\ tickPrev' = [second |-> lastSecond, minute |-> lastMinute, hour |-> lastHour]
    /\ IF ~state.isRunning
       THEN /\ emitted' = <<>> /\ delivered' = <<>> /\ threw' = FALSE
            /\ Leave(Env, op)
            /\ UNCHANGED <<currentVirtualTime, state, intervalId, intervals,
                           lastSecond, lastMinute, lastHour, sinceLastRealTime>>
       ELSE LET deltaReal == sinceLastRealTime + sincePrevious
                t == IF state.isReverse
                     THEN currentVirtualTime - deltaVirtual(deltaReal, state.speed)
                     ELSE currentVirtualTime + deltaVirtual(deltaReal, state.speed)
                st == updateStateFromTimestamp(state, t)
                acc0 == [isRunning |-> TRUE, intervalId |-> intervalId, intervals |-> intervals,
                         emitted |-> <<>>, delivered |-> <<>>, threw |-> FALSE, time |-> st,
                         last |-> [second |-> lastSecond, minute |-> lastMinute, hour |-> lastHour],
                         e |-> Env]
            IN \E acc \in {EmitTransitions(callbacks, acc0)} :
               /\ acc.e.droneTimers <= MaxTimers
               /\ sinceLastRealTime' = 0
               /\ currentVirtualTime' = t
               /\ state' = [st EXCEPT !.isRunning = acc.isRunning]
               /\ intervalId' = acc.intervalId
               /\ intervals' = acc.intervals
               /\ lastSecond' = acc.last.second
               /\ lastMinute' = acc.last.minute
               /\ lastHour' = acc.last.hour
               /\ emitted' = acc.emitted
               /\ delivered' = acc.delivered
               /\ threw' = acc.threw
               /\ Leave(acc.e, op)
    /\ UNCHANGED <<callbacks, isStarted, starting, isPlaying, audioStarted, preset, playTasks, edits>>

update(sincePrevious) == updateAs(sincePrevious, [op |-> "update"])

TdSubscribe == \E id \in SubscriberIds, cb \in CallbackKinds : subscribe(id, cb) /\ UNCHANGED opVars
TdUnsubscribe == \E id \in SubscriberIds : unsubscribe(id) /\ UNCHANGED opVars
TdSetSpeed == \E s \in SpeedInputs : setSpeed(s) /\ UNCHANGED opVars
TdSetReverse == \E b \in BOOLEAN : setReverse(b) /\ UNCHANGED opVars
TdStart == start /\ UNCHANGED opVars
TdStop == stop /\ UNCHANGED opVars
TdUpdate == \E d \in RealDeltas : update(d)

\* The engine and the App as constructed and mounted, audio not yet started
ChannelsInit ==
    /\ isStarted = FALSE
    /\ starting = 0
    /\ channels = [l \in Layers |-> NoChannel]
    /\ creating = {}
    /\ connected = {}
    /\ nextChain = 1
    /\ masterVolume = -6

\* The arpeggiator singleton and the engine's arp fields as constructed
NewArp ==
    [arpeggiator |-> [notes |-> <<>>, settings |-> defaultArpSettings,
                      pattern |-> NoPattern, isRunning |-> FALSE, orphans |-> <<>>],
     arpPlayed |-> <<>>,
     arpVoice |-> [arpCachedPreset |-> <<>>, arpPortamento |-> 0, arpVolumeValue |-> -10,
                   arpSynth |-> <<>>]]

\* The same after the App's mount effects: the effect on [arpSettings] has
\* run with the store's defaults
MountedArp == arpSettingsEffect(NewArp, [pattern |-> "up", glissando |-> 0])

ArpInitAs(a) ==
    /\ arpeggiator = a.arpeggiator
    /\ arpPlayed = a.arpPlayed
    /\ arpVoice = a.arpVoice

AudioInit ==
    /\ ChannelsInit
    /\ ArpInitAs(NewArp)

StoreInit ==
    /\ isPlaying = FALSE
    /\ audioStarted = FALSE
    /\ droneTimers = 0
    /\ playTasks = <<>>
    /\ edits = 0
    /\ submitted = [l \in Layers |-> NoPreset]
    /\ lastOp = [op |-> "init"]
    /\ engCalls = <<>>
    /\ synthCalls = <<>>

TdNext ==
    \/ TdSubscribe
    \/ TdUnsubscribe
    \/ TdSetSpeed
    \/ TdSetReverse
    \/ TdStart
    \/ TdStop
    \/ TdUpdate

\* The time engine with arbitrary subscribers; the audio side stays idle
SpecTimeInit ==
    /\ TdInit
    /\ AudioInit
    /\ StoreInit
    /\ preset = [l \in Layers |-> defaultPreset(l)]
    /\ prevPresets = [l \in Layers |-> preset[l].id]

SpecTime == SpecTimeInit /\ [][TdNext]_vars

----------------------------------------------------------------------------
(* The time engine driven through its public methods, with a log of the
   calls and of the ticks *)

\* Arguments of setSpeed, in tenths: below 0.1, inside the range, above 10, NaN
DilatorSpeedInputs == {0, 20, 250, NaN}
\* Real milliseconds between two ticks
DilatorDeltas == {500, 1000}
\* Real milliseconds that pass while the engine is stopped
DilatorWaits == {5000}
\* What the subscriber of this specification does: it calls timeDilator.stop()
DilatorCallbacks == {"stops"}

DilatorInit ==
    /\ TdInitAt(43199000)
    /\ AudioInit
    /\ isPlaying = FALSE
    /\ audioStarted = FALSE
    /\ droneTimers = 0
    /\ playTasks = <<>>
    /\ edits = 0
    /\ submitted = [l \in Layers |-> NoPreset]
    /\ engCalls = <<>>
    /\ synthCalls = <<>>
    /\ preset = [l \in Layers |-> defaultPreset(l)]
    /\ prevPresets = [l \in Layers |-> preset[l].id]
    /\ lastOp = [op |-> "init", history |-> <<>>]

\* The call that has just run.  history lists the ticks that ran one after
\* the other with no call between them other than setReverse.
Logged(op) ==
    /\ lastOp' = op
    /\ UNCHANGED <<engCalls, synthCalls>>

DilSubscribe == \E cb \in DilatorCallbacks : subscribe("clock-display", cb) /\ UNCHANGED opVars

DilSetSpeed ==
    \E s \in DilatorSpeedInputs :
        /\ setSpeed(s)
        /\ Logged([op |-> "setSpeed", speed |-> s, history |-> <<>>])

DilSetReverse ==
    \E b \in BOOLEAN :
        /\ setReverse(b)
        /\ Logged([op |-> "setReverse", reverse |-> b, history |-> lastOp.history])

DilStart ==
    /\ start
    /\ Logged([op |-> "start", wasRunning |-> state.isRunning,
               stoppedFor |-> IF state.isRunning THEN 0 ELSE sinceLastRealTime,
               history |-> <<>>])

DilStop ==
    /\ stop
    /\ Logged([op |-> "stop", history |-> <<>>])

DilReset ==
    \E now \in StartTimes :
        /\ reset(now)
        /\ Logged([op |-> "reset", wasRunning |-> state.isRunning, history |-> <<>>])

\* A tick of the timer; ticks at a NaN speed are not explored
DilUpdate ==
    \E d \in DilatorDeltas :
        /\ state.speed # NaN
        /\ updateAs(d, [op |-> "update",
                        history |-> Append(lastOp.history,
                                       [before |-> currentVirtualTime, deltaReal |-> d,
                                        speed |-> state.speed, isReverse |-> state.isReverse,
                                        isRunning |-> state.isRunning,
                                        resumedAfter |-> IF lastOp.op = "start"
                                                         THEN lastOp.stoppedFor ELSE 0])])

\* Real time passes while the engine is stopped
DilWait ==
    \E w \in DilatorWaits :
        /\ ~state.isRunning
        /\ sinceLastRealTime = 0
        /\ sinceLastRealTime' = w
        /\ UNCHANGED <<currentVirtualTime, state, intervalId, intervals, callbacks,
                       lastSecond, lastMinute, lastHour, emitted, delivered, tickPrev, threw,
                       ticks>>
        /\ UNCHANGED <<engVars, appVars, opVars, arpVars>>

DilatorNext ==
    \/ DilSubscribe
    \/ DilSetSpeed
    \/ DilSetReverse
    \/ DilStart
    \/ DilStop
    \/ DilReset
    \/ DilUpdate
    \/ DilWait

SpecDilator == DilatorInit /\ [][DilatorNext]_vars

----------------------------------------------------------------------------
(* The subscriptions of the time engine, with a log of the calls *)

\* The callback registered under id, "none" when there is none
Registered(id) ==
    IF CbIndex(callbacks, id) = 0 THEN "none" ELSE callbacks[CbIndex(callbacks, id)].cb

SubsSubscribe ==
    \E id \in SubscriberIds, cb \in CallbackKinds :
        /\ subscribe(id, cb)
        /\ Logged([op |-> "subscribe", id |-> id, cb |-> cb, replaced |-> Registered(id)])

SubsUnsubscribe ==
    \E id \in SubscriberIds :
        /\ unsubscribe(id)
        /\ Logged([op |-> "unsubscribe", id |-> id, found |-> Registered(id) # "none"])

SubsStart == start /\ Logged([op |-> "start"])

\* A tick; the log keeps the call that came before it
SubsUpdate == \E d \in RealDeltas : updateAs(d, [op |-> "update", after |-> lastOp])

SubsNext ==
    \/ SubsSubscribe
    \/ SubsUnsubscribe
    \/ SubsStart
    \/ SubsUpdate

SpecSubs == SpecTimeInit /\ [][SubsNext]_vars

----------------------------------------------------------------------------
(* App: handlers, effects and timers.  A state change and the effects React
   runs for it are one step; each await is a step boundary. *)

\* createChannel calls a suspended handlePlay still has to make
ChainsToBuild(t) ==
    CASE t.pc = "start" -> 3 [] t.pc = "hour" -> 2 [] t.pc = "minute" -> 1 [] OTHER -> 0

RECURSIVE SumChainsToBuild(_)
SumChainsToBuild(tasks) ==
    IF tasks = <<>> THEN 0 ELSE ChainsToBuild(Head(tasks)) + SumChainsToBuild(Tail(tasks))

\* An operation is explored when the chains built so far, with those the
\* suspended handlePlay invocations still build, and the pending timeouts
\* stay within the bounds
ChainsLeft(e, tasks) ==
    /\ (e.nextChain - 1) + SumChainsToBuild(tasks) <= MaxChains
    /\ e.droneTimers <= MaxTimers

AppCreateChannel(e, layer, p) == createChannelBegin(EngCall(e, "createChannel", layer, p), layer, p)

\* handlePlay from "if (!isPlaying)" on, then the effects of the render
\* that depend on the presets: they run when audioStarted has just become true
finishPlay(e, wasPlaying, startedNow) ==
    LET e1 == togglePlay(e, wasPlaying)
    IN IF startedNow THEN arpPresetEffect(presetEffects(e1, preset, ~wasPlaying), TRUE) ELSE e1

\* What the App's renders compare the effect dependencies of
PlayState(playing, started) == [isPlaying |-> playing, audioStarted |-> started]

\* Click on the Play/Stop button: handlePlay up to its first pending await,
\* and the effects of the render when it has changed isPlaying
PlayClick ==
    /\ ClockStandsStill
    /\ IF audioStarted
       THEN LET fx == arpPlayEffect(togglePlay(Env, isPlaying), callbacks,
                                   PlayState(isPlaying, TRUE), PlayState(~isPlaying, TRUE),
                                   state)
            IN /\ ChainsLeft(fx.e, playTasks)
               /\ isPlaying' = ~isPlaying
               /\ callbacks' = fx.callbacks
               /\ LeaveUnlogged(fx.e)
               /\ UNCHANGED <<isStarted, starting, audioStarted, preset, playTasks, edits>>
       ELSE /\ UNCHANGED callbacks
            /\ IF isStarted
               THEN LET e == AppCreateChannel(Env, "hour", preset["hour"])
                    IN /\ playTasks' = Append(playTasks,
                              [pc |-> "hour", chain |-> e.nextChain - 1,
                               isPlaying |-> isPlaying, presets |-> preset])
                       /\ ChainsLeft(e, playTasks')
                       /\ LeaveUnlogged(e)
                       /\ UNCHANGED starting
               ELSE /\ starting' = starting + 1
                    /\ playTasks' = Append(playTasks,
                           [pc |-> "start", chain |-> 0,
                            isPlaying |-> isPlaying, presets |-> preset])
                    /\ ChainsLeft(Env, playTasks')
                    /\ LeaveUnlogged(Env)
            /\ UNCHANGED <<isStarted, isPlaying, audioStarted, preset, edits>>

\* Tone.start() resolves: start() sets isStarted, handlePlay goes on to
\* createChannel('hour', ..)
ToneStartDone ==
    \E i \in 1..Len(playTasks) :
        /\ playTasks[i].pc = "start"
        /\ LET t == playTasks[i]
               e == AppCreateChannel([Env EXCEPT !.isStarted = TRUE], "hour", t.presets["hour"])
           IN /\ isStarted' = TRUE
              /\ starting' = starting - 1
              /\ playTasks' = [playTasks EXCEPT ![i] = [t EXCEPT !.pc = "hour", !.chain = e.nextChain - 1]]
              /\ ChainsLeft(e, playTasks')
              /\ LeaveUnlogged(e)
        /\ TimeStandsStill
        /\ UNCHANGED <<isPlaying, audioStarted, preset, edits>>

RemoveAt(seq, i) == [k \in 1..(Len(seq) - 1) |-> IF k < i THEN seq[k] ELSE seq[k + 1]]

\* reverb.generate() of one pending createChannel resolves (in any order):
\* the channel is connected and stored, and a handlePlay awaiting it goes on
GenerateDone ==
    \E c \in creating :
        /\ \E e1 \in {createChannelFinish(Env, c)} :
           \E waiting \in {{i \in 1..Len(playTasks) : playTasks[i].chain = c.chain}} :
              IF waiting = {}
              THEN /\ LeaveUnlogged(e1)
                   /\ UNCHANGED <<isPlaying, audioStarted, playTasks, callbacks>>
              ELSE \E i \in {CHOOSE k \in waiting : TRUE} :
                   \E t \in {playTasks[i]} :
                      IF t.pc \in {"hour", "minute"}
                      THEN \E next \in {IF t.pc = "hour" THEN "minute" ELSE "second"} :
                           \E e \in {AppCreateChannel(e1, next, t.presets[next])} :
                              /\ playTasks' = [playTasks EXCEPT ![i] =
                                                  [t EXCEPT !.pc = next, !.chain = e.nextChain - 1]]
                              /\ ChainsLeft(e, playTasks')
                              /\ LeaveUnlogged(e)
                              /\ UNCHANGED <<isPlaying, audioStarted, callbacks>>
                      ELSE \E fx \in {arpPlayEffect(finishPlay(e1, t.isPlaying, ~audioStarted),
                                                    callbacks,
                                                    PlayState(isPlaying, audioStarted),
                                                    PlayState(~t.isPlaying, TRUE), state)} :
                              /\ audioStarted' = TRUE
                              /\ isPlaying' = ~t.isPlaying
                              /\ playTasks' = RemoveAt(playTasks, i)
                              /\ callbacks' = fx.callbacks
                              /\ ChainsLeft(fx.e, playTasks')
                              /\ LeaveUnlogged(fx.e)
        /\ ClockStandsStill
        /\ UNCHANGED <<isStarted, starting, preset, edits>>

\* A setTimeout(() => startHourDrone(), ..) callback runs
DroneTimerFires ==
    /\ droneTimers > 0
    /\ LeaveUnlogged(startHourDrone([Env EXCEPT !.droneTimers = @ - 1], state))
    /\ TimeStandsStill
    /\ UNCHANGED <<isStarted, starting, isPlaying, audioStarted, preset, playTasks, edits>>

\* The layers whose preset the sound editor changes in the explored runs: the
\* drone layer and one of the two note layers, whose effects have the same code
EditedLayers == {"hour", "second"}

\* A store write of one layer's preset and the layer's preset effect
StorePreset(layer, p, op) ==
    /\ edits < MaxEdits
    /\ edits' = edits + 1
    /\ preset' = [preset EXCEPT ![layer] = p]
    /\ LET e == IF audioStarted THEN presetEffect(Env, layer, p, isPlaying) ELSE Env
       IN /\ ChainsLeft(e, playTasks)
          /\ Leave(e, [op |-> op, layer |-> layer, prevId |-> preset[layer].id])
    /\ TimeStandsStill
    /\ UNCHANGED <<isStarted, starting, isPlaying, audioStarted, playTasks>>

\* setPreset(layer, preset) with a library preset (SoundEditor.handlePresetChange)
SetPreset ==
    \E layer \in EditedLayers : \E name \in LibraryIds(layer) :
        StorePreset(layer, LibraryPreset(name), "setPreset")

\* updatePresetParameter(layer, param, value)
UpdatePresetParameter ==
    \E layer \in EditedLayers : \E v \in ParamValues \ {preset[layer].value} :
        StorePreset(layer, updatedPreset(preset[layer], v), "updatePresetParameter")

\* The clock's update() as the mounted App sees it, one real second apart
ClockTick == update(SecondMs)

\* The App as mounted: ClockDisplay has started the clock, the effects have
\* subscribed, the presets are the store's defaults
AppInit ==
    /\ \E t \in {43199000} :
          /\ currentVirtualTime = t
          /\ state = updateStateFromTimestamp(
                        [hours |-> 12, minutes |-> 0, seconds |-> 0, milliseconds |-> 0,
                         speed |-> 10, isRunning |-> TRUE, isReverse |-> FALSE], t)
    /\ intervalId = TRUE
    /\ intervals = 1
    /\ callbacks = <<[id |-> "clock-display", cb |-> "returns"],
                     [id |-> "app-audio", cb |-> "handleTimeEvent"]>>
    /\ lastSecond = state.seconds /\ lastMinute = state.minutes /\ lastHour = state.hours
    /\ emitted = <<>> /\ delivered = <<>>
    /\ tickPrev = [second |-> -1, minute |-> -1, hour |-> -1]
    /\ threw = FALSE
    /\ ticks = 0
    /\ sinceLastRealTime = 0
    /\ ChannelsInit
    /\ ArpInitAs(MountedArp)
    /\ StoreInit
    /\ preset = [l \in Layers |-> defaultPreset(l)]
    /\ prevPresets = [l \in Layers |-> preset[l].id]

Next ==
    \/ PlayClick
    \/ ToneStartDone
    \/ GenerateDone
    \/ DroneTimerFires
    \/ SetPreset
    \/ UpdatePresetParameter
    \/ ClockTick

Spec == AppInit /\ [][Next]_vars

\* The App with its pending work carried out: a timer that is set fires, a
\* reverb generation and a Tone.start() that are pending complete.  Clicks,
\* edits and the clock's hour boundaries are not forced to happen.
SpecLive ==
    /\ Spec
    /\ WF_vars(DroneTimerFires)
    /\ WF_vars(GenerateDone)
    /\ WF_vars(ToneStartDone)

----------------------------------------------------------------------------
(* The AudioEngine called directly *)

EngineIds == {"hour"}
EngineNotes == {<<"C", 3>>}
EngineChords == {<< <<"C", 3>>, <<"E", 3>>, <<"G", 3>> >>}

EngineStep(e, op) ==
    /\ Leave(e, op)
    /\ TimeStandsStill
    /\ UNCHANGED <<isStarted, starting, isPlaying, audioStarted, preset, playTasks, edits>>

\* start() up to "await Tone.start()"
EngStart ==
    /\ starting' = IF isStarted THEN starting ELSE starting + 1
    /\ starting' <= MaxStarts
    /\ LeaveUnlogged(Env)
    /\ TimeStandsStill
    /\ UNCHANGED <<isStarted, isPlaying, audioStarted, preset, playTasks, edits>>

\* start() after the await
EngStartDone ==
    /\ starting > 0
    /\ starting' = starting - 1
    /\ isStarted' = TRUE
    /\ LeaveUnlogged(Env)
    /\ TimeStandsStill
    /\ UNCHANGED <<isPlaying, audioStarted, preset, playTasks, edits>>

EngCreateChannel ==
    \E id \in EngineIds : \E name \in LibraryIds(id) :
        LET e == createChannelBegin(Env, id, LibraryPreset(name))
        IN ChainsLeft(e, <<>>) /\ EngineStep(e, [op |-> "createChannel"])

EngTriggerAttack ==
    \E id \in EngineIds : \E note \in EngineNotes :
        LET e == triggerAttack(Env, id, note)
        IN /\ Len(e.channels[id].activeNotes) <= MaxNotes
           /\ EngineStep(e, [op |-> "triggerAttack"])

EngTriggerAttackChord ==
    \E id \in EngineIds : \E notes \in EngineChords :
        LET e == triggerAttackChord(Env, id, notes)
        IN /\ Len(e.channels[id].activeNotes) <= MaxNotes
           /\ EngineStep(e, [op |-> "triggerAttackChord"])

EngTriggerRelease ==
    \E id \in EngineIds :
        EngineStep(triggerRelease(Env, id),
                   [op |-> "triggerRelease", id |-> id,
                    ready |-> channels[id].chain # 0 /\ isStarted,
                    before |-> channels[id].activeNotes,
                    again |-> lastOp.op = "triggerRelease" /\ lastOp.id = id])

EngUpdateSynthParams ==
    \E id \in EngineIds : \E name \in LibraryIds(id) :
        EngineStep(updateSynthParams(Env, id, LibraryPreset(name)),
                   [op |-> "updateSynthParams"])

EngDisposeChannel ==
    \E id \in EngineIds : EngineStep(disposeChannel(Env, id), [op |-> "disposeChannel"])

EngineInit ==
    /\ TdInitAt(43199000)
    /\ AudioInit
    /\ StoreInit
    /\ preset = [l \in Layers |-> defaultPreset(l)]
    /\ prevPresets = [l \in Layers |-> preset[l].id]

EngineNext ==
    \/ EngStart
    \/ EngStartDone
    \/ EngCreateChannel
    \/ GenerateDone
    \/ EngTriggerAttack
    \/ EngTriggerAttackChord
    \/ EngTriggerRelease
    \/ EngUpdateSynthParams
    \/ EngDisposeChannel

SpecEngine == EngineInit /\ [][EngineNext]_vars

----------------------------------------------------------------------------
(* updateSynthParams on channels that sound *)

InPlaceUpdateSynthParams ==
    \E id \in EngineIds : \E name \in LibraryIds(id) :
        EngineStep(updateSynthParams(Env, id, LibraryPreset(name)),
                   [op |-> "updateSynthParams", id |-> id, preset |-> LibraryPreset(name),
                    changed |-> channels[id].preset # LibraryPreset(name)])

InPlaceNext ==
    \/ EngStart
    \/ EngStartDone
    \/ EngCreateChannel
    \/ GenerateDone
    \/ EngTriggerAttack
    \/ EngTriggerRelease
    \/ InPlaceUpdateSynthParams

SpecInPlace == EngineInit /\ [][InPlaceNext]_vars

----------------------------------------------------------------------------
(* The note calls of the AudioEngine on channels that may not exist *)

TransientOps == {"playNote", "playChord", "triggerAttack", "triggerAttackChord",
                 "triggerRelease", "triggerReleaseNotes"}
\* "hour" is created and disposed, "minute" is never created
TransientIds == {"hour", "minute"}

Transient(e, op, channelId) ==
    CASE op = "playNote" -> playNote(e, channelId, <<"C", 3>>)
      [] op = "playChord" -> playChord(e, channelId, << <<"C", 3>>, <<"E", 3>> >>)
      [] op = "triggerAttack" -> triggerAttack(e, channelId, <<"C", 3>>)
      [] op = "triggerAttackChord" -> triggerAttackChord(e, channelId, << <<"C", 3>>, <<"E", 3>> >>)
      [] op = "triggerRelease" -> triggerRelease(e, channelId)
      [] OTHER -> triggerReleaseNotes(e, channelId, << <<"C", 3>> >>)

TransientCall ==
    \E op \in TransientOps, id \in TransientIds :
        LET e == Transient(Env, op, id)
        IN /\ Len(e.channels[id].activeNotes) <= MaxHeld
           /\ EngineStep(e, [op |-> op, id |-> id,
                             registered |-> channels[id].chain # 0, started |-> isStarted])

TransientCreateChannel ==
    LET e == createChannelBegin(Env, "hour", defaultPreset("hour"))
    IN /\ e.nextChain <= MaxBuilt + 1
       /\ EngineStep(e, [op |-> "createChannel"])

\* How a createChannel call goes: no failure, reverb.generate() rejects,
\* or the construction of another node throws
CreateOutcomes == {"ok", "reverb", "node"}

\* createChannel fails before its await and returns
TransientCreateThrows ==
    \E id \in TransientIds :
        EngineStep(createChannelThrows(Env, id),
                   [op |-> "createChannelDone", id |-> id, outcome |-> "node", chain |-> <<>>])

\* createChannel goes on after the await and returns
TransientCreateDone ==
    \E c \in creating : \E outcome \in CreateOutcomes :
        EngineStep(IF outcome = "node" THEN createChannelFinishThrows(Env, c)
                                       ELSE createChannelFinish(Env, c),
                   [op |-> "createChannelDone", id |-> c.id, outcome |-> outcome,
                    chain |-> IF outcome = "node" THEN <<>> ELSE connectChain])

TransientNext ==
    \/ EngStart
    \/ EngStartDone
    \/ TransientCreateChannel
    \/ TransientCreateThrows
    \/ TransientCreateDone
    \/ EngDisposeChannel
    \/ TransientCall

SpecTransient == EngineInit /\ [][TransientNext]_vars

----------------------------------------------------------------------------
(* The arpeggiator voice called directly *)

ArpPresets == {<<"H01">>, <<"M01">>}
PortamentoInputs == {0, 50}
ArpVolumeInputs == {-70, -20}

VoiceSetArpPortamento ==
    \E time \in PortamentoInputs :
        EngineStep(setArpPortamento(Env, time), [op |-> "setArpPortamento", value |-> time])

VoiceSetArpVolume ==
    \E db \in ArpVolumeInputs :
        EngineStep(setArpVolume(Env, db), [op |-> "setArpVolume", value |-> db])

VoiceUpdateArpParams ==
    \E id \in ArpPresets :
        EngineStep(updateArpParams(Env, id), [op |-> "updateArpParams", value |-> id])

VoicePlayArpNote ==
    EngineStep(playArpNote(Env, <<"C", 4>>),
               [op |-> "playArpNote", started |-> isStarted,
                built |-> isStarted /\ arpVoice.arpSynth = <<>>])

VoiceNext ==
    \/ EngStart
    \/ EngStartDone
    \/ VoiceSetArpPortamento
    \/ VoiceSetArpVolume
    \/ VoiceUpdateArpParams
    \/ VoicePlayArpNote

SpecVoice == EngineInit /\ [][VoiceNext]_vars

----------------------------------------------------------------------------
(* AudioEngine.start() and its one-time activation work *)

\* setupMediaSession() runs so far: each sets the media-session handlers and
\* starts one silent keep-alive oscillator
Setups == IF lastOp.op = "init" THEN 0 ELSE lastOp.setups

ActivationStep(e, op, setups) ==
    /\ Leave(e, [op |-> op, setups |-> setups])
    /\ TimeStandsStill
    /\ UNCHANGED <<isPlaying, audioStarted, preset, playTasks, edits>>

\* start() up to "await Tone.start()"
ActStart ==
    /\ starting' = IF isStarted THEN starting ELSE starting + 1
    /\ starting' <= MaxOverlap
    /\ UNCHANGED isStarted
    /\ ActivationStep(Env, "start", Setups)

\* start() after the await: isStarted = true, then setupMediaSession()
ActStartDone ==
    /\ starting > 0
    /\ starting' = starting - 1
    /\ isStarted' = TRUE
    /\ ActivationStep(Env, "startDone", Setups + 1)

ActSetArpVolume ==
    /\ \E db \in ArpVolumeInputs : ActivationStep(setArpVolume(Env, db), "setArpVolume", Setups)
    /\ UNCHANGED <<isStarted, starting>>

ActUpdateArpParams ==
    /\ \E id \in ArpPresets :
          ActivationStep(updateArpParams(Env, id), "updateArpParams", Setups)
    /\ UNCHANGED <<isStarted, starting>>

ActPlayArpNote ==
    /\ Len(synthCalls) < MaxHeld
    /\ ActivationStep(playArpNote([Env EXCEPT !.synthCalls = synthCalls], <<"C", 4>>),
                      "playArpNote", Setups)
    /\ UNCHANGED <<isStarted, starting>>

ActivationNext ==
    \/ ActStart
    \/ ActStartDone
    \/ ActSetArpVolume
    \/ ActUpdateArpParams
    \/ ActPlayArpNote

SpecActivation == EngineInit /\ [][ActivationNext]_vars

----------------------------------------------------------------------------
(* AudioEngine volume controls *)

\* setChannelVolume(channelId, volume): the level the 0.1 s ramp ends at
setChannelVolume(e, channelId, volume) ==
    IF e.channels[channelId].chain = 0 THEN e
    ELSE [e EXCEPT !.channels[channelId].volume = volume]

\* setMasterVolume(db)
setMasterVolume(e, db) == [e EXCEPT !.masterVolume = Max(-60, Min(6, db))]

\* Levels the mixer and the master slider pass (a muted channel passes -Infinity)
VolumeInputs == {NegInfinity, -70, -60, -59, 0, 12}

VolSetChannelVolume ==
    \E id \in EngineIds : \E v \in VolumeInputs :
        EngineStep(setChannelVolume(Env, id, v),
                   [op |-> "setChannelVolume", id |-> id, volume |-> v,
                    found |-> channels[id].chain # 0])

VolSetMasterVolume ==
    \E v \in VolumeInputs :
        EngineStep(setMasterVolume(Env, v), [op |-> "setMasterVolume", volume |-> v])

VolumeNext ==
    \/ EngCreateChannel
    \/ GenerateDone
    \/ VolSetChannelVolume
    \/ VolSetMasterVolume

SpecVolume == EngineInit /\ [][VolumeNext]_vars

----------------------------------------------------------------------------
(* The Arpeggiator called directly *)

ArpPatterns == {"up", "down", "upDown", "downUp", "random"}

\* Note pools passed to setNotes
NotePools ==
    { << <<"E", 4>>, <<"C", 4>>, <<"G", 4>> >>,
      << <<"C", 4>>, <<"C#", 4>>, <<"D", 4>> >>,
      << <<"A", 4>>, <<"C", 4>> >>,
      << <<"D", 4>> >>,
      << >>,
      << <<"F", 4>>, <<"D", 4>>, <<"G", 4>>, <<"E", 4>> >> }

\* Arguments of updateSettings
SettingsInputs ==
    {[keys |-> {"enabled"}, enabled |-> b, pattern |-> "up"] : b \in BOOLEAN}
    \cup {[keys |-> {"enabled", "pattern"}, enabled |-> TRUE, pattern |-> p] : p \in ArpPatterns}

\* The draws a call can consume: those of one shuffle when the pattern it
\* builds is 'random', none otherwise
CallDraws(notes, pattern) ==
    IF pattern = "random" THEN ShuffleDraws(Len(notes))
    ELSE {[i \in 1..(Len(notes) - 1) |-> 0]}

ArpSetNotes ==
    \E notes \in NotePools : \E js \in CallDraws(notes, arpeggiator.settings.pattern) :
        EngineStep(setNotes(Env, notes, js),
                   [op |-> "setNotes", wasRunning |-> arpeggiator.isRunning])

ArpUpdateSettings ==
    \E settings \in SettingsInputs :
    \E js \in CallDraws(arpeggiator.notes, IF "pattern" \in settings.keys THEN settings.pattern
                                            ELSE arpeggiator.settings.pattern) :
        EngineStep(updateSettings(Env, settings, js), [op |-> "updateSettings"])

ArpStart ==
    \E js \in CallDraws(arpeggiator.notes, arpeggiator.settings.pattern) :
        EngineStep(arpStart(Env, js),
                   [op |-> "start",
                    ready |-> arpeggiator.notes # <<>> /\ arpeggiator.settings.enabled])

ArpStop ==
    EngineStep(arpStop(Env), [op |-> "stop", wasRunning |-> arpeggiator.isRunning,
                              played |-> Len(arpPlayed)])

ArpPatternEvent ==
    /\ Len(arpPlayed) < MaxArpSteps
    /\ \E src \in Scheduled(arpeggiator) : \E k \in 0..(Len(arpeggiator.notes) - 1) :
          EngineStep(patternEvent(Env, src, k), [op |-> "patternEvent"])

ArpNext ==
    \/ ArpSetNotes
    \/ ArpUpdateSettings
    \/ ArpStart
    \/ ArpStop
    \/ ArpPatternEvent

SpecArp == EngineInit /\ [][ArpNext]_vars

----------------------------------------------------------------------------
(* The App with its arpeggiator: play/stop, the arpeggiator settings of the
   store and the events of the scheduled pattern *)

\* Patterns the settings panel is given in the explored runs; 'random',
\* whose sequence is a shuffle, is explored with the Arpeggiator called directly
SeqPatterns == {"up", "down", "upDown"}

\* setArpeggiatorSettings(settings) and the effect on [arpSettings]
SeqArpSettings ==
    \E pattern \in SeqPatterns : \E glissando \in PortamentoInputs :
        EngineStep(arpSettingsEffect(Env, [pattern |-> pattern, glissando |-> glissando]),
                   [op |-> "arpSettings", pattern |-> pattern])

\* An event of a scheduled Tone.Pattern: the Arpeggiator passes the note to
\* the callback the App has set, which plays it when audioStarted && isPlaying
SeqPatternEvent ==
    /\ Len(arpPlayed) < MaxArpSteps
    /\ \E src \in Scheduled(arpeggiator) :
          LET e == patternEvent(Env, src, 0)
              note == e.arpPlayed[Len(e.arpPlayed)]
          IN EngineStep(IF audioStarted /\ isPlaying THEN playArpNote(e, note) ELSE e,
                        [op |-> "patternEvent"])

SeqNext ==
    \/ PlayClick
    \/ ToneStartDone
    \/ GenerateDone
    \/ DroneTimerFires
    \/ ClockTick
    \/ SeqArpSettings
    \/ SeqPatternEvent

SpecSequencer == AppInit /\ [][SeqNext]_vars

----------------------------------------------------------------------------
(* ToneClock: the pure functions applied to every clock reading *)

ClockHours == 1..12
ClockMinutes == 0..59
ClockSeconds == 0..59

ToneInputs ==
    {[op |-> "input", hours |-> h, minutes |-> m, seconds |-> s] :
        h \in ClockHours, m \in ClockMinutes, s \in ClockSeconds}

ToneInit ==
    /\ TdInitAt(43199000)
    /\ AudioInit
    /\ isPlaying = FALSE
    /\ audioStarted = FALSE
    /\ droneTimers = 0
    /\ playTasks = <<>>
    /\ edits = 0
    /\ submitted = [l \in Layers |-> NoPreset]
    /\ engCalls = <<>>
    /\ synthCalls = <<>>
    /\ preset = [l \in Layers |-> defaultPreset(l)]
    /\ prevPresets = [l \in Layers |-> preset[l].id]
    /\ lastOp \in ToneInputs

ToneStep(op) ==
    /\ lastOp' = op
    /\ UNCHANGED <<tdVars, engVars, appVars, arpVars, engCalls, synthCalls>>

ToneMapTime ==
    /\ lastOp.op = "input"
    /\ ToneStep([op |-> "mapTimeToToneClock",
                 hours |-> lastOp.hours, minutes |-> lastOp.minutes, seconds |-> lastOp.seconds,
                 result |-> mapTimeToToneClock(lastOp.hours, lastOp.minutes, lastOp.seconds),
                 calls |-> mapTimeToToneClockCalls(lastOp.hours, lastOp.minutes, lastOp.seconds),
                 again |-> <<>>])

\* a second call with the same arguments
ToneMapTimeAgain ==
    /\ lastOp.op = "mapTimeToToneClock"
    /\ lastOp.again = <<>>
    /\ ToneStep([lastOp EXCEPT !.again =
                    mapTimeToToneClock(lastOp.hours, lastOp.minutes, lastOp.seconds)])

ToneTessellate ==
    /\ lastOp.op = "input"
    /\ ToneStep([op |-> "tessellate", hour |-> lastOp.hours,
                 result |-> tessellate(getHour(lastOp.hours))])

ToneTessellateHourX ==
    /\ lastOp.op = "input"
    /\ ToneStep([op |-> "tessellateHourX", result |-> tessellateHourX])

ToneNext ==
    \/ ToneMapTime
    \/ ToneMapTimeAgain
    \/ ToneTessellate
    \/ ToneTessellateHourX

SpecTone == ToneInit /\ [][ToneNext]_vars

----------------------------------------------------------------------------
(* The node parameters of one channel.  Fractions (wet levels, depth,
   feedback, delay time in seconds) are kept in hundredths; frequency is in
   Hz, Q is a plain number, thresholds and volumes are in dB.  An optional
   field that is absent from the preset is absent from the record. *)

\* r.f || d: the default replaces an absent field and the number 0
OrDefault(r, f, d) == IF f \in DOMAIN r /\ r[f] # 0 THEN r[f] ELSE d

\* r.f ?? d: the default replaces an absent field only
Nullish(r, f, d) == IF f \in DOMAIN r THEN r[f] ELSE d

\* Math.max(lo, Math.min(hi, x))
Clamp(lo, hi, x) == Max(lo, Min(hi, x))

\* createChannel: the values the chain's nodes are constructed with
createChannelNodes(p) ==
    [waveform |-> p.waveform,
     filterType |-> p.filter.type,
     frequency |-> OrDefault(p.filter, "frequency", 2000),
     Q |-> OrDefault(p.filter, "resonance", 1),
     reverbWet |-> Clamp(0, 100, OrDefault(p.effects, "reverb", 0)),
     tremoloDepth |-> Clamp(0, 100, OrDefault(p.effects, "tremolo", 0)),
     gateThreshold |-> Clamp(-100, 0, OrDefault(p.effects, "noiseGate", -100)),
     delayTime |-> Clamp(1, 100, OrDefault(p.effects, "delayTime", 25)),
     delayFeedback |-> Clamp(0, 90, Nullish(p.effects, "delayFeedback", 60)),
     delayWet |-> Clamp(0, 100, OrDefault(p.effects, "delay", 0)),
     volume |-> OrDefault(p, "volume", -12)]

\* updateSynthParams: the node values after the in-place update
updateSynthParamsNodes(nodes, p) ==
    [nodes EXCEPT
        !.waveform = p.waveform,
        !.frequency = OrDefault(p.filter, "frequency", 2000),
        !.Q = OrDefault(p.filter, "resonance", 1),
        !.filterType = p.filter.type,
        !.reverbWet = Clamp(0, 100, OrDefault(p.effects, "reverb", 0)),
        !.delayWet = Clamp(0, 100, OrDefault(p.effects, "delay", 0)),
        !.tremoloDepth = Clamp(0, 100, OrDefault(p.effects, "tremolo", 0)),
        !.gateThreshold = Clamp(-100, 0, OrDefault(p.effects, "noiseGate", -100)),
        !.delayTime = IF OrDefault(p.effects, "delayTime", 0) # 0
                      THEN Clamp(1, 100, p.effects.delayTime) ELSE @,
        !.delayFeedback = Clamp(0, 90, Nullish(p.effects, "delayFeedback", 60))]

\* updateParameter(channelId, param, value)
updateParameterNodes(nodes, param, value) ==
    LET safeValue == Max(0, value)
    IN CASE param = "filterFreq" -> [nodes EXCEPT !.frequency = Clamp(20, 20000, safeValue)]
         [] param = "filterRes" -> [nodes EXCEPT !.Q = Clamp(0, 20, safeValue)]
         [] param = "reverb" -> [nodes EXCEPT !.reverbWet = Clamp(0, 100, safeValue)]
         [] param = "delay" -> [nodes EXCEPT !.delayWet = Clamp(0, 100, safeValue)]
         [] param = "volume" ->
               [nodes EXCEPT !.volume = IF value <= -60 THEN NegInfinity
                                         ELSE Clamp(-60, 6, value)]
         [] OTHER -> nodes

\* setChannelVolume(channelId, volume): volume.rampTo(volume, 0.1)
setChannelVolumeNodes(nodes, volume) == [nodes EXCEPT !.volume = volume]

\* A preset with every value inside its documented range
InRangePreset ==
    [waveform |-> "sine",
     filter |-> [type |-> "lowpass", frequency |-> 800, resonance |-> 5],
     effects |-> [reverb |-> 30, delay |-> 20, delayTime |-> 50, delayFeedback |-> 40,
                  tremolo |-> 10, noiseGate |-> -40],
     volume |-> -20]

\* Presets of the explored runs: the one above with one field changed to a
\* boundary of its range, to a value outside it, or left out
NodePresets ==
    {InRangePreset}
    \cup {[InRangePreset EXCEPT !.waveform = "square", !.filter.type = "highpass"]}
    \cup {[InRangePreset EXCEPT !.filter.frequency = f] : f \in {20, 20000, 50000}}
    \cup {[InRangePreset EXCEPT !.filter.resonance = q] : q \in {0, 20, 30}}
    \cup {[InRangePreset EXCEPT !.volume = v] : v \in {-60, 0, 10}}
    \cup {[InRangePreset EXCEPT !.effects.noiseGate = g] : g \in {-100, 0}}
    \cup {[InRangePreset EXCEPT !.effects.delayTime = t] : t \in {0, 200}}
    \cup {[InRangePreset EXCEPT !.effects.reverb = w] : w \in {0, 100, 150}}
    \cup {[InRangePreset EXCEPT !.effects =
              [reverb |-> 30, delay |-> 20, delayTime |-> 50]]}

NodeParams == {"filterFreq", "filterRes", "reverb", "delay", "volume"}
NodeValues == {-70, 0, 50, 30000}

NodesInit ==
    /\ TdInitAt(43199000)
    /\ AudioInit
    /\ StoreInit
    /\ preset = [l \in Layers |-> defaultPreset(l)]
    /\ prevPresets = [l \in Layers |-> preset[l].id]

\* The channel of these runs, once a createChannel has stored it
Nodes == IF lastOp.op = "init" THEN <<>> ELSE lastOp.nodes

NodesStep(op) ==
    /\ lastOp' = op
    /\ UNCHANGED <<tdVars, engVars, appVars, arpVars, engCalls, synthCalls>>

NodesCreateChannel ==
    \E p \in NodePresets :
        NodesStep([op |-> "createChannel", preset |-> p, nodes |-> createChannelNodes(p)])

NodesUpdateSynthParams ==
    /\ Nodes # <<>>
    /\ \E p \in NodePresets :
          NodesStep([op |-> "updateSynthParams", preset |-> p,
                     nodes |-> updateSynthParamsNodes(Nodes, p)])

NodesUpdateParameter ==
    /\ Nodes # <<>>
    /\ \E param \in NodeParams : \E value \in NodeValues :
          NodesStep([op |-> "updateParameter", preset |-> lastOp.preset,
                     nodes |-> updateParameterNodes(Nodes, param, value)])

NodesSetChannelVolume ==
    /\ Nodes # <<>>
    /\ \E value \in NodeValues :
          NodesStep([op |-> "setChannelVolume", preset |-> lastOp.preset,
                     nodes |-> setChannelVolumeNodes(Nodes, value)])

NodesNext ==
    \/ NodesCreateChannel
    \/ NodesUpdateSynthParams
    \/ NodesUpdateParameter
    \/ NodesSetChannelVolume

SpecNodes == NodesInit /\ [][NodesNext]_vars

----------------------------------------------------------------------------
(* updatePresetParameter on presets with their names.  A stored preset is
   [id, name, value]. *)

EditIds ==
    {<<n>> : n \in {"H01", "M01", "S01"}}
    \cup {<<"CUSTOM_", n>> : n \in {"H01", "M01", "S01"}}
    \cup {<<"CUSTOM_", "CUSTOM_", "H01">>}

EditNames ==
    {<<"Deep Drone">>, <<"Deep Drone", " (Modified)">>, <<"Tick">>,
     <<"Bell", " (Modified)", " Two">>, <<"Bell", " (Modified)", " Two", " (Modified)">>}

EditInit ==
    /\ TdInitAt(43199000)
    /\ AudioInit
    /\ isPlaying = FALSE
    /\ audioStarted = FALSE
    /\ droneTimers = 0
    /\ playTasks = <<>>
    /\ edits = 0
    /\ submitted = [l \in Layers |-> NoPreset]
    /\ engCalls = <<>>
    /\ synthCalls = <<>>
    /\ preset = [l \in Layers |-> defaultPreset(l)]
    /\ prevPresets = [l \in Layers |-> preset[l].id]
    /\ \E id \in EditIds : \E name \in EditNames :
          lastOp = [op |-> "init", current |-> [id |-> id, name |-> name, value |-> 0]]

\* updatePresetParameter(layer, param, value) on the layer's stored preset
EditUpdatePresetParameter ==
    \E v \in ParamValues \ {lastOp.current.value} :
        /\ lastOp' = [op |-> "updatePresetParameter",
                      before |-> lastOp.current,
                      again |-> lastOp.op = "updatePresetParameter",
                      current |-> [id |-> updatedPreset(lastOp.current, v).id,
                                   name |-> updatedName(lastOp.current.name),
                                   value |-> updatedPreset(lastOp.current, v).value]]
        /\ UNCHANGED <<tdVars, engVars, appVars, arpVars, engCalls, synthCalls>>

SpecEdit == EditInit /\ [][EditUpdatePresetParameter]_vars

----------------------------------------------------------------------------
(* Claims about the time engine, checked under SpecTime *)

\* An update() has just run to its end or to an exception
Ticked == tickPrev.second # -1

\* The fields the update() that just ran found changed
ChangedFields ==
    {f \in {"second", "minute", "hour"} :
        \/ f = "second" /\ state.seconds # tickPrev.second
        \/ f = "minute" /\ state.minutes # tickPrev.minute
        \/ f = "hour" /\ state.hours # tickPrev.hour}

EventRank(type) == CASE type = "second" -> 1 [] type = "minute" -> 2 [] OTHER -> 3

\* C3: in one tick at most one second, one minute and one hour event is
\* emitted, in the order second, minute, hour; a tick that crosses a 59->0
\* second boundary together with a minute boundary emits exactly one second
\* event followed by exactly one minute event.
C3_OneEventPerKindInOrder ==
    /\ \A i, j \in 1..Len(emitted) : i < j => EventRank(emitted[i]) < EventRank(emitted[j])
    /\ (Ticked /\ tickPrev.second = 59 /\ state.seconds = 0 /\ state.minutes # tickPrev.minute)
          => /\ Len(emitted) >= 2
             /\ emitted[1] = "second"
             /\ emitted[2] = "minute"

\* C4: once stop() has returned no subscriber receives an event until the
\* next start(), also when stop() is called from inside a callback.
C4_NoEventAfterStop ==
    \A i \in 1..Len(delivered) : ~delivered[i].afterStop

\* C5: a throwing callback does not keep the other callbacks from receiving
\* the event, nor the remaining events of the tick and the last-seen
\* second/minute/hour bookkeeping from being processed.
C5_SubscriberIsolation ==
    Ticked =>
        /\ \A f \in ChangedFields : \A k \in 1..Len(callbacks) :
              \E i \in 1..Len(delivered) :
                  delivered[i].id = callbacks[k].id /\ delivered[i].type = f
        /\ lastSecond = state.seconds
        /\ lastMinute = state.minutes
        /\ lastHour = state.hours

----------------------------------------------------------------------------
(* Claims about the orchestration, checked under Spec *)

CallsOf(op, layer) == {i \in 1..Len(engCalls) : engCalls[i].op = op /\ engCalls[i].id = layer}

\* C1: a parameter-only change of a layer's preset (updatePresetParameter),
\* from any preset including a pristine library preset, never makes the App
\* call createChannel for the layer; once audio is started the change goes
\* through updateSynthParams.
C1_TweakNeverRecreates ==
    lastOp.op = "updatePresetParameter" =>
        /\ CallsOf("createChannel", lastOp.layer) = {}
        /\ audioStarted => CallsOf("updateSynthParams", lastOp.layer) # {}

\* C2: once audio has been started, replacing a layer's preset by one with a
\* different id (setPreset) makes the App call createChannel for that layer
\* with the new preset, and not updateSynthParams.
C2_SwapCreatesChannel ==
    (lastOp.op = "setPreset" /\ audioStarted /\ preset[lastOp.layer].id # lastOp.prevId) =>
        engCalls = <<[op |-> "createChannel", id |-> lastOp.layer, preset |-> preset[lastOp.layer]]>>

C2_Witness ==
    /\ lastOp.op = "setPreset" /\ audioStarted
    /\ preset[lastOp.layer].id # lastOp.prevId
    /\ \E c \in creating : c.id = lastOp.layer /\ c.preset = preset[lastOp.layer]

\* C7: whenever the orchestration is Stopped and no delayed callback is
\* pending, the 'hour' channel has no active notes.
C7_NoStuckDrone ==
    (~isPlaying /\ droneTimers = 0) => channels["hour"].activeNotes = <<>>

\* C8: the 'hour' channel never holds more than the three notes of one chord
\* (no two chord attacks without a release in between).
C8_NoStackedDrone == Len(channels["hour"].activeNotes) <= 3

\* C10: once no channel creation is pending, each layer's registered channel
\* is configured from the preset the App submitted last for that layer.
C10_LatestPresetWins ==
    (creating = {} /\ playTasks = <<>>) =>
        \A l \in Layers :
            submitted[l] # NoPreset =>
                channels[l].chain # 0 /\ channels[l].preset = submitted[l]

----------------------------------------------------------------------------
(* Claims about the AudioEngine, checked under SpecEngine *)

\* C6: on a started engine with an existing channel, triggerRelease(id)
\* issues one release for exactly the notes tracked as active and leaves the
\* active-notes list empty; a triggerRelease(id) right after it issues no
\* release call.
C6_ReleasePairsAttacks ==
    (lastOp.op = "triggerRelease" /\ lastOp.ready) =>
        /\ channels[lastOp.id].activeNotes = <<>>
        /\ synthCalls = IF lastOp.before # <<>>
                        THEN <<[chain |-> channels[lastOp.id].chain, op |-> "triggerRelease",
                                notes |-> lastOp.before]>>
                        ELSE <<>>
        /\ lastOp.again => synthCalls = <<>>

C6_Witness ==
    /\ lastOp.op = "triggerRelease" /\ lastOp.ready
    /\ Len(lastOp.before) = 4
    /\ Len(synthCalls) = 1

\* C9: every chain that was connected for a channel id and is not the one
\* registered under that id has been disposed.
C9_NoOrphanChain ==
    \A c \in connected : channels[c.id].chain = c.chain

----------------------------------------------------------------------------
(* Claims about the volume controls, checked under SpecVolume *)

\* C11: setChannelVolume(id, db) and setMasterVolume(db) with db at or below
\* -60 leave the volume node muted (-Infinity); with db = -59 they leave it
\* at the finite level -59.
C11_VolumeFloor ==
    /\ (lastOp.op = "setChannelVolume" /\ lastOp.found) =>
          /\ lastOp.volume <= -60 => channels[lastOp.id].volume = NegInfinity
          /\ lastOp.volume = -59 => channels[lastOp.id].volume = -59
    /\ lastOp.op = "setMasterVolume" =>
          /\ lastOp.volume <= -60 => masterVolume = NegInfinity
          /\ lastOp.volume = -59 => masterVolume = -59

----------------------------------------------------------------------------
(* Claims about the Arpeggiator, checked under SpecArp *)

\* Pitch of a note in semitones
Pitch(note) == 12 * note[2] + (CHOOSE i \in 1..12 : PITCH_CLASSES[i] = note[1])

IsPermutation(a, b) ==
    /\ Len(a) = Len(b)
    /\ \A i \in 1..Len(a) :
          Cardinality({k \in 1..Len(a) : a[k] = a[i]}) = Cardinality({k \in 1..Len(b) : b[k] = a[i]})

\* The sequence the live pattern was started with, for the pattern setting p
BuiltFor(p) == arpeggiator.pattern.live /\ arpeggiator.settings.pattern = p

\* C12: the sequence built for pattern 'up' lists the pool's notes in
\* ascending pitch order, the one built for 'down' in descending pitch order.
C12_UpDownByPitch ==
    LET values == arpeggiator.pattern.values
    IN /\ BuiltFor("up") =>
             /\ IsPermutation(values, arpeggiator.notes)
             /\ \A i \in 1..(Len(values) - 1) : Pitch(values[i]) < Pitch(values[i + 1])
       /\ BuiltFor("down") =>
             /\ IsPermutation(values, arpeggiator.notes)
             /\ \A i \in 1..(Len(values) - 1) : Pitch(values[i]) > Pitch(values[i + 1])

\* C13: for a pool of N >= 3 notes the 'upDown' sequence is the 'up' sequence
\* followed by its interior notes in reverse (length 2N-2), and 'downUp' is
\* the same built from the 'down' sequence; for N <= 2 they are the 'up' and
\* the 'down' sequence.
C13_UpDownShape ==
    \A p \in {"upDown", "downUp"} :
        BuiltFor(p) =>
            LET values == arpeggiator.pattern.values
                noDraws == [i \in 1..(Len(arpeggiator.notes) - 1) |-> 0]
                base == generateSequence(arpeggiator.notes, IF p = "upDown" THEN "up" ELSE "down",
                                         noDraws)
                N == Len(base)
            IN IF N <= 2 THEN values = base
               ELSE /\ Len(values) = 2 * N - 2
                    /\ \A i \in 1..N : values[i] = base[i]
                    /\ \A i \in 1..(N - 2) : values[N + i] = base[N - i]

C13_Witness ==
    /\ BuiltFor("upDown")
    /\ Len(arpeggiator.notes) = 4
    /\ Len(arpeggiator.pattern.values) = 6

\* C14: the 'random' sequence is a permutation of the pool fixed at start(),
\* and the notes passed to the callback follow it cyclically.
C14_RandomShuffledOnce ==
    BuiltFor("random") =>
        LET values == arpeggiator.pattern.values
        IN /\ IsPermutation(values, arpeggiator.notes)
           /\ \A i \in 1..Len(arpPlayed) : arpPlayed[i] = values[((i - 1) % Len(values)) + 1]

----------------------------------------------------------------------------
(* Claims about the ToneClock functions, checked under SpecTone *)

RECURSIVE Flatten(_)
Flatten(groups) == IF groups = <<>> THEN <<>> ELSE Head(groups) \o Flatten(Tail(groups))

\* groups of the given size that hold each pitch class 0..11 exactly once
Partitions(groups, count, size) ==
    /\ Len(groups) = count
    /\ \A g \in 1..Len(groups) : Len(groups[g]) = size
    /\ \A pc \in 0..11 :
          Cardinality({i \in 1..Len(Flatten(groups)) : Flatten(groups)[i] = pc}) = 1

\* C15: the 4 trichords of every non-null tessellation hold each pitch class
\* 0..11 exactly once, and so do the 3 tetrachords of tessellateHourX.
C15_TessellationPartition ==
    /\ (lastOp.op = "tessellate" /\ lastOp.result # <<>>) => Partitions(lastOp.result, 4, 3)
    /\ lastOp.op = "tessellateHourX" => Partitions(lastOp.result, 3, 4)

C15_Witness ==
    /\ lastOp.op = "tessellate"
    /\ lastOp.hour = 7
    /\ lastOp.result # <<>>

\* C16: for hours 1..12, minutes 0..59 and seconds 0..59 mapTimeToToneClock
\* returns transpositionIndex = floor(minutes/15) mod 4, noteIndex = seconds
\* mod 3, the hour record of that clock position, and as currentTrichord the
\* tessellation entry at transpositionIndex, or without a tessellation the
\* prime form transposed by 3 * transpositionIndex; a second call with the
\* same arguments returns the same result.
C16_MapTimeToToneClock ==
    lastOp.op = "mapTimeToToneClock" =>
        LET r == lastOp.result
            quarter == CHOOSE q \in 0..3 : 15 * q <= lastOp.minutes /\ lastOp.minutes < 15 * (q + 1)
        IN /\ r.transpositionIndex = quarter
           /\ r.noteIndex \in 0..2
           /\ (lastOp.seconds - r.noteIndex) % 3 = 0
           /\ r.activeHour.hour = lastOp.hours
           /\ r.activeHour \in {TONE_CLOCK_HOURS[i] : i \in 1..Len(TONE_CLOCK_HOURS)}
           /\ r.tessellation = r.activeHour.tessellation
           /\ r.tessellation # <<>> => r.currentTrichord = r.tessellation[quarter + 1]
           /\ r.tessellation = <<>> =>
                 /\ Len(r.currentTrichord) = 3
                 /\ \A i \in 1..3 :
                       r.currentTrichord[i] = (r.activeHour.pitchClassSet[i] + 3 * quarter) % 12
           /\ lastOp.again # <<>> => lastOp.again = r

C16_Witness ==
    /\ lastOp.op = "mapTimeToToneClock"
    /\ lastOp.hours = 7 /\ lastOp.minutes = 47 /\ lastOp.seconds = 59
    /\ lastOp.result.currentTrichord = <<4, 7, 10>>
    /\ lastOp.result.noteIndex = 2
    /\ lastOp.again = lastOp.result

\* C17: for the hour whose tessellation is null (hour 10) the mapping takes
\* the notes from tessellateHourX and does not call generateTrichord.
C17_NullTessellationUsesHourX ==
    (lastOp.op = "mapTimeToToneClock" /\ lastOp.result.tessellation = <<>>) =>
        /\ \A i \in 1..Len(lastOp.calls) : lastOp.calls[i] # "generateTrichord"
        /\ \E k \in 1..Len(tessellateHourX) :
              \A i \in 1..Len(lastOp.result.currentTrichord) :
                 \E j \in 1..4 : lastOp.result.currentTrichord[i] = tessellateHourX[k][j]

----------------------------------------------------------------------------
(* Claims about the time engine's methods, checked under SpecDilator *)

\* The tick that has just run, as update() found the engine
LastTick == lastOp.history[Len(lastOp.history)]

\* C18: a tick that observes deltaReal ms at speed s moves the accumulator by
\* exactly +deltaReal*s forward and -deltaReal*s in reverse, and a forward
\* tick followed by a reverse tick with the same deltaReal and s restores it.
\* Speeds are in tenths, so ten times the change is deltaReal * speed.
C18_TickArithmetic ==
    (lastOp.op = "update" /\ LastTick.isRunning) =>
        LET n == Len(lastOp.history)
            change == currentVirtualTime - LastTick.before
        IN /\ ~LastTick.isReverse => 10 * change = LastTick.deltaReal * LastTick.speed
           /\ LastTick.isReverse => 10 * change = -(LastTick.deltaReal * LastTick.speed)
           /\ (/\ n >= 2
               /\ lastOp.history[n - 1].isRunning
               /\ ~lastOp.history[n - 1].isReverse
               /\ LastTick.isReverse
               /\ lastOp.history[n - 1].deltaReal = LastTick.deltaReal
               /\ lastOp.history[n - 1].speed = LastTick.speed
               /\ 10 * (LastTick.before - lastOp.history[n - 1].before)
                     = LastTick.deltaReal * LastTick.speed)
              => currentVirtualTime = lastOp.history[n - 1].before

C18_Witness ==
    /\ lastOp.op = "update"
    /\ Len(lastOp.history) = 2
    /\ lastOp.history[1] = [before |-> 43199000, deltaReal |-> 1000, speed |-> 20,
                            isReverse |-> FALSE, isRunning |-> TRUE, resumedAfter |-> 0]
    /\ lastOp.history[2] = [before |-> 43201000, deltaReal |-> 1000, speed |-> 20,
                            isReverse |-> TRUE, isRunning |-> TRUE, resumedAfter |-> 0]
    /\ currentVirtualTime = 43199000

\* C19: the speed multiplier always lies in [0.1, 10]; setSpeed stores 0.1
\* for a smaller argument and 10 for a larger one.
C19_SpeedClamp ==
    /\ state.speed # NaN
    /\ state.speed \in 1..100
    /\ (lastOp.op = "setSpeed" /\ lastOp.speed # NaN) =>
          /\ lastOp.speed < 1 => state.speed = 1
          /\ lastOp.speed > 100 => state.speed = 100

\* At most one tick timer, scheduled exactly when the engine is running
OneTimerWhenRunning ==
    /\ intervals \in {0, 1}
    /\ intervals = 1 <=> state.isRunning
    /\ intervalId <=> state.isRunning

\* C20: start() on a running engine changes nothing, and after any start(),
\* stop() and reset() calls at most one tick timer is scheduled, one being
\* scheduled exactly when the running flag is true.
C20_StartStopStateMachine ==
    /\ []OneTimerWhenRunning
    /\ [][(state.isRunning /\ start) =>
             UNCHANGED <<currentVirtualTime, state, intervalId, intervals, callbacks,
                         lastSecond, lastMinute, lastHour, sinceLastRealTime>>]_vars

C20_Witness ==
    /\ lastOp.op = "start"
    /\ lastOp.wasRunning
    /\ state.isRunning
    /\ intervals = 1
    /\ ticks >= 1

\* The accumulator and the fields derived from it
VirtualClock == <<currentVirtualTime, state.hours, state.minutes, state.seconds>>

\* C21: stop() leaves the accumulator and the derived hours/minutes/seconds
\* unchanged, nothing but reset() changes them while the engine is stopped,
\* and the first tick after a start() adds the real time since that start()
\* only, not the real time that passed while the engine was stopped.
C21_FrozenWhileStopped ==
    /\ [][lastOp'.op = "stop" => UNCHANGED VirtualClock]_vars
    /\ [][(~state.isRunning /\ lastOp'.op # "reset") => UNCHANGED VirtualClock]_vars
    /\ [](lastOp.op = "update" /\ LastTick.isRunning /\ LastTick.resumedAfter > 0 =>
             10 * (currentVirtualTime - LastTick.before)
                = (IF LastTick.isReverse THEN -1 ELSE 1) * LastTick.deltaReal * LastTick.speed)

C21_Witness ==
    /\ lastOp.op = "update"
    /\ LastTick.isRunning
    /\ LastTick.resumedAfter = 5000
    /\ LastTick.deltaReal = 1000
    /\ currentVirtualTime - LastTick.before = 1000

\* C22: setReverse(b), on a running or a stopped engine, leaves the
\* accumulator, the speed and the running flag unchanged; the tick after it
\* subtracts its scaled delta when b is true and adds it when b is false.
C22_DirectionChange ==
    /\ [][lastOp'.op = "setReverse" =>
             /\ UNCHANGED <<currentVirtualTime, state.speed, state.isRunning>>
             /\ state'.isReverse = lastOp'.reverse]_vars
    /\ [][(lastOp.op = "setReverse" /\ lastOp'.op = "update" /\ state.isRunning) =>
             10 * (currentVirtualTime' - currentVirtualTime)
                = (IF lastOp.reverse THEN -1 ELSE 1)
                  * lastOp'.history[Len(lastOp'.history)].deltaReal * state.speed]_vars

C22_Witness ==
    /\ lastOp.op = "update"
    /\ Len(lastOp.history) = 2
    /\ lastOp.history[1].isRunning /\ ~lastOp.history[1].isReverse
    /\ lastOp.history[2].isRunning /\ lastOp.history[2].isReverse
    /\ currentVirtualTime < lastOp.history[2].before
    /\ lastOp.history[2].before > lastOp.history[1].before

----------------------------------------------------------------------------
(* Claims about the subscriptions, checked under SpecSubs *)

\* Callback invocations of the tick that just ran, for id and callback cb
DeliveredTo(id, cb) == {i \in 1..Len(delivered) : delivered[i].id = id /\ delivered[i].cb = cb}

OneCallbackPerId ==
    /\ \A i, j \in 1..Len(callbacks) : callbacks[i].id = callbacks[j].id => i = j
    /\ \A i \in 1..Len(delivered) : Registered(delivered[i].id) = delivered[i].cb
    /\ (lastOp.op = "subscribe" /\ lastOp.replaced # lastOp.cb) =>
          /\ Registered(lastOp.id) = lastOp.cb
          /\ \A k \in 1..Len(callbacks) : callbacks[k].id = lastOp.id => callbacks[k].cb = lastOp.cb
    /\ (lastOp.op = "update" /\ lastOp.after.op = "subscribe"
            /\ lastOp.after.replaced \notin {"none", lastOp.after.cb}) =>
          DeliveredTo(lastOp.after.id, lastOp.after.replaced) = {}

\* C23: at most one callback is registered per id; after subscribe(id, cb2)
\* replaces cb1, events go to cb2 and never to cb1; unsubscribe(id) for an
\* id that is not registered changes nothing.
C23_SubscriptionUpsert ==
    /\ []OneCallbackPerId
    /\ [][(lastOp'.op = "unsubscribe" /\ ~lastOp'.found) =>
             UNCHANGED <<callbacks, currentVirtualTime, state, intervalId, intervals,
                         lastSecond, lastMinute, lastHour>>]_vars

C23_Witness ==
    /\ lastOp.op = "update"
    /\ lastOp.after.op = "subscribe"
    /\ lastOp.after.replaced = "throws"
    /\ lastOp.after.cb = "returns"
    /\ DeliveredTo(lastOp.after.id, "returns") # {}
    /\ DeliveredTo(lastOp.after.id, "throws") = {}

----------------------------------------------------------------------------
(* Claims about the AudioEngine's note calls, checked under SpecTransient *)

\* C24: playNote, playChord, triggerAttack, triggerAttackChord,
\* triggerRelease and triggerReleaseNotes for an id that is not registered,
\* or before audio has started, call no synth and leave every channel's
\* active notes as they were.
C24_TransientCallsIgnored ==
    /\ []((lastOp.op \in TransientOps /\ ~(lastOp.registered /\ lastOp.started)) =>
             synthCalls = <<>>)
    /\ [][(lastOp'.op \in TransientOps /\ ~(lastOp'.registered /\ lastOp'.started)) =>
             \A l \in Layers : channels'[l].activeNotes = channels[l].activeNotes]_vars

C24_Witness ==
    /\ lastOp.op = "triggerAttack"
    /\ lastOp.id = "hour"
    /\ channels["hour"].chain # 0
    /\ ~lastOp.started
    /\ synthCalls = <<>>
    /\ channels["hour"].activeNotes = <<>>

\* C25: when createChannel(id, preset) completes, also after a failing step,
\* a channel is registered under id.
C25_DegradedChannelCreation ==
    lastOp.op = "createChannelDone" => channels[lastOp.id].chain # 0

\* Position of a node in the chain a createChannel call has connected
ChainPosition(node) == CHOOSE i \in 1..Len(lastOp.chain) : lastOp.chain[i] = node

\* C30: every channel createChannel builds is connected synth -> filter ->
\* tremolo -> delay -> reverb -> gate -> channel volume -> master: the gate
\* after the reverb, the tremolo directly after the filter.
C30_SignalChainOrder ==
    (lastOp.op = "createChannelDone" /\ lastOp.chain # <<>>) =>
        /\ lastOp.chain = <<"synth", "filter", "tremolo", "delay", "reverb", "gate", "volume",
                            "masterVolume">>
        /\ ChainPosition("gate") > ChainPosition("reverb")
        /\ ChainPosition("tremolo") = ChainPosition("filter") + 1

----------------------------------------------------------------------------
(* Claims about the arpeggiator voice, checked under SpecVoice *)

\* The setters store their argument whether or not the voice exists
SettersCache ==
    /\ lastOp.op = "setArpPortamento" => arpVoice.arpPortamento = lastOp.value
    /\ lastOp.op = "setArpVolume" =>
          arpVoice.arpVolumeValue = IF lastOp.value <= -60 THEN NegInfinity ELSE lastOp.value
    /\ lastOp.op = "updateArpParams" => arpVoice.arpCachedPreset = lastOp.value

\* The voice as the playArpNote call that built it has left it
BuiltFromCache ==
    (lastOp.op = "playArpNote" /\ lastOp.built) =>
        /\ arpVoice.arpSynth # <<>>
        /\ arpVoice.arpSynth.preset = arpVoice.arpCachedPreset
        /\ arpVoice.arpSynth.portamento = arpVoice.arpPortamento
        /\ arpVoice.arpSynth.volume = arpVoice.arpVolumeValue

\* C26: the arp voice does not exist until the first playArpNote made after
\* audio start, and when it is built it has the latest preset given to
\* updateArpParams, the latest setArpPortamento value and the latest
\* setArpVolume value.
C26_LazyArpVoice ==
    /\ [](arpVoice.arpSynth # <<>> => isStarted)
    /\ []((lastOp.op = "playArpNote" /\ ~lastOp.started) => arpVoice.arpSynth = <<>>)
    /\ [][(arpVoice.arpSynth = <<>> /\ arpVoice'.arpSynth # <<>>) =>
             (lastOp'.op = "playArpNote" /\ isStarted)]_vars
    /\ []SettersCache
    /\ []BuiltFromCache

C26_Witness ==
    /\ lastOp.op = "playArpNote"
    /\ lastOp.built
    /\ arpVoice.arpSynth = [preset |-> <<"M01">>, portamento |-> 50, volume |-> -20]

----------------------------------------------------------------------------
(* Claims about audio activation, checked under SpecActivation *)

\* C29: however many start() calls are made and however they overlap, the
\* media-session setup and the keep-alive oscillator are made at most once.
C29_OneTimeActivation == Setups <= 1

----------------------------------------------------------------------------
(* Claims about the sequencer's cancellation, checked under SpecArp *)

\* C28: once stop() has returned no pattern is scheduled and the note
\* callback is not invoked while the sequencer is not running, which it is
\* again only after a start() that succeeds; stop() on a sequencer that is
\* not running changes nothing.
C28_SequencerCancellation ==
    /\ [](lastOp.op = "stop" => (~arpeggiator.isRunning /\ Scheduled(arpeggiator) = {}))
    /\ [][~arpeggiator.isRunning => lastOp'.op # "patternEvent"]_vars
    /\ [][(~arpeggiator.isRunning /\ arpeggiator'.isRunning) =>
             lastOp'.op \in {"start", "updateSettings"}]_vars
    /\ [][(lastOp'.op = "stop" /\ ~lastOp'.wasRunning) =>
             UNCHANGED <<arpeggiator, arpPlayed>>]_vars

C28_Witness ==
    /\ lastOp.op = "stop"
    /\ lastOp.wasRunning
    /\ lastOp.played > 0
    /\ arpPlayed = <<>>

----------------------------------------------------------------------------
(* Claims about the App's arpeggiator, checked under SpecSequencer *)

Playing == isPlaying /\ audioStarted

\* C27: after every user action (Play, Stop, a change of the arpeggiator
\* settings) the sequencer is running exactly when the App is playing with
\* audio started: a pattern is scheduled while it plays, none while it is
\* stopped.
C27_SequencerLockstep ==
    /\ Playing => (arpeggiator.isRunning /\ arpeggiator.pattern.live)
    /\ ~Playing => (~arpeggiator.isRunning /\ Scheduled(arpeggiator) = {})

C27_Witness ==
    /\ lastOp.op = "arpSettings"
    /\ audioStarted
    /\ ~isPlaying
    /\ arpeggiator.notes # <<>>
    /\ arpeggiator.settings.pattern = "down"
    /\ ~arpeggiator.isRunning

----------------------------------------------------------------------------
(* Claims about the clock's lifecycle in the App, checked under Spec *)

\* C31: while the App is stopped the TimeDilator is not running and the
\* tick that has just run has emitted no second, minute or hour event.
C31_ClockFollowsPlayback ==
    ~isPlaying => (~state.isRunning /\ emitted = <<>>)

----------------------------------------------------------------------------
(* Claims about the node parameters, checked under SpecNodes *)

\* C32: after any createChannel, updateSynthParams, updateParameter or
\* setChannelVolume call the channel's node parameters lie in their
\* documented ranges: Q in 0..20, frequency in 20..20000 Hz, wet levels and
\* tremolo depth in 0..1, feedback in 0..0.9, gate threshold in -100..0 dB,
\* volume muted or in -60..6 dB.
C32_ParameterClamping ==
    Nodes # <<>> =>
        /\ Nodes.Q \in 0..20
        /\ Nodes.frequency \in 20..20000
        /\ Nodes.reverbWet \in 0..100
        /\ Nodes.delayWet \in 0..100
        /\ Nodes.tremoloDepth \in 0..100
        /\ Nodes.delayFeedback \in 0..90
        /\ Nodes.gateThreshold \in -100..0
        /\ (Nodes.volume = NegInfinity \/ Nodes.volume \in -60..6)

\* The preset's values lie inside the documented ranges
InDocumentedRanges(p) ==
    /\ p.volume \in -60..0
    /\ p.filter.resonance \in 0..20
    /\ "noiseGate" \in DOMAIN p.effects => p.effects.noiseGate \in -100..0

\* C37: the channel createChannel builds from a preset whose values lie
\* inside the documented ranges, 0 included, has preset.volume on its volume
\* node, preset.effects.noiseGate as gate threshold and
\* preset.filter.resonance as filter Q.
C37_PresetValuesVerbatim ==
    (lastOp.op = "createChannel" /\ InDocumentedRanges(lastOp.preset)) =>
        /\ Nodes.volume = lastOp.preset.volume
        /\ Nodes.Q = lastOp.preset.filter.resonance
        /\ "noiseGate" \in DOMAIN lastOp.preset.effects =>
               Nodes.gateThreshold = lastOp.preset.effects.noiseGate

\* The parameters that updateSynthParams and createChannel both set
Tweaked(nodes) ==
    [f \in {"waveform", "filterType", "frequency", "Q", "reverbWet", "delayWet",
            "delayTime", "delayFeedback", "tremoloDepth", "gateThreshold"} |-> nodes[f]]

\* C39: after updateSynthParams(id, p) the node parameters equal those a
\* fresh createChannel(id, p) gives, whatever the channel was configured
\* with before.
C39_TweakAndSwapAgree ==
    lastOp.op = "updateSynthParams" =>
        Tweaked(Nodes) = Tweaked(createChannelNodes(lastOp.preset))

----------------------------------------------------------------------------
(* Claims about updateSynthParams on the engine, checked under SpecInPlace *)

\* C33: updateSynthParams on an existing channel keeps the channel's chain
\* of nodes and its active notes, issues no attack or release and creates or
\* disposes nothing; only the stored preset changes.  On a channel that does
\* not exist it changes nothing.
C33_UpdateInPlace ==
    [][lastOp'.op = "updateSynthParams" =>
          /\ synthCalls' = <<>>
          /\ creating' = creating /\ connected' = connected /\ nextChain' = nextChain
          /\ IF channels[lastOp'.id].chain = 0 THEN channels' = channels
             ELSE channels' = [channels EXCEPT ![lastOp'.id].preset = lastOp'.preset]]_vars

C33_Witness ==
    /\ lastOp.op = "updateSynthParams"
    /\ channels[lastOp.id].chain # 0
    /\ channels[lastOp.id].activeNotes # <<>>
    /\ lastOp.changed
    /\ channels[lastOp.id].preset = lastOp.preset

----------------------------------------------------------------------------
(* Claims about the store's updatePresetParameter, checked under SpecEdit *)

\* C34: updatePresetParameter stores a preset whose id is 'CUSTOM_' followed
\* by the current id without one leading 'CUSTOM_', whose name is the base
\* name followed by ' (Modified)' and whose parameter has the new value; the
\* preset it read is left as it was, and a further application gives the
\* same id and name again.
C34_CustomPresetNaming ==
    lastOp.op = "updatePresetParameter" =>
        LET old == lastOp.before
            new == lastOp.current
            baseName == SubSeq(new.name, 1, Len(new.name) - 1)
        IN /\ Head(new.id) = "CUSTOM_"
           /\ Tail(new.id) = (IF Head(old.id) = "CUSTOM_" THEN Tail(old.id) ELSE old.id)
           /\ new.name[Len(new.name)] = " (Modified)"
           /\ old.name \in {baseName, baseName \o <<" (Modified)">>}
           /\ new.value # old.value
           /\ lastOp.again => (new.id = old.id /\ new.name = old.name)

C34_Witness ==
    /\ lastOp.op = "updatePresetParameter"
    /\ lastOp.again
    /\ lastOp.current.id = <<"CUSTOM_", "CUSTOM_", "H01">>
    /\ lastOp.current.name = <<"Bell", " (Modified)", " Two", " (Modified)">>

----------------------------------------------------------------------------
(* Claims about the Arpeggiator's settings and state, checked under SpecArp *)

\* C35: updateSettings on a running arpeggiator restarts the sequence when
\* the pattern changes, and a call that leaves the pattern at its current
\* value neither stops nor restarts the sequence: the scheduled pattern
\* keeps its position.
C35_RestartOnlyOnChange ==
    [][(lastOp'.op = "updateSettings" /\ arpeggiator.isRunning /\ arpeggiator'.isRunning) =>
          IF arpeggiator'.settings.pattern # arpeggiator.settings.pattern
          THEN arpeggiator'.pattern.index = 0 /\ arpPlayed' = <<>>
          ELSE arpeggiator'.pattern = arpeggiator.pattern /\ arpPlayed' = arpPlayed]_vars

\* C40: after any sequence of setNotes, updateSettings, start and stop the
\* running flag is set exactly when one pattern is scheduled, and never two
\* are; a running arpeggiator is enabled and has notes; start() with an empty
\* pool or with enabled false schedules nothing.
C40_RunningIffScheduled ==
    /\ arpeggiator.isRunning <=> Cardinality(Scheduled(arpeggiator)) = 1
    /\ Cardinality(Scheduled(arpeggiator)) <= 1
    /\ arpeggiator.isRunning => (arpeggiator.settings.enabled /\ arpeggiator.notes # <<>>)
    /\ (lastOp.op = "start" /\ ~lastOp.ready) =>
           (~arpeggiator.isRunning /\ Scheduled(arpeggiator) = {})

\* a running arpeggiator has been given the empty pool
C40_Witness ==
    /\ lastOp.op = "setNotes"
    /\ lastOp.wasRunning
    /\ arpeggiator.notes = <<>>
    /\ ~arpeggiator.isRunning
    /\ arpeggiator.settings.enabled
    /\ Scheduled(arpeggiator) = {}

----------------------------------------------------------------------------
(* Claims about the tessellation data, checked under SpecTone *)

\* The pitch-class sets that are a transposition, or the transposition of
\* the inversion, of a prime form
SetClass(pcs) ==
    {{(pcs[i] + t) % 12 : i \in 1..Len(pcs)} : t \in 0..11}
    \cup {{(12 - pcs[i] + t) % 12 : i \in 1..Len(pcs)} : t \in 0..11}

\* C38: for every hour that has a tessellation, each of its 4 trichords is
\* the hour's prime form transposed and/or inverted mod 12.
C38_TessellationInSetClass ==
    (lastOp.op = "tessellate" /\ lastOp.result # <<>>) =>
        \A k \in 1..Len(lastOp.result) :
            {lastOp.result[k][i] : i \in 1..Len(lastOp.result[k])}
                \in SetClass(getHour(lastOp.hour).pitchClassSet)

----------------------------------------------------------------------------
(* Claims about the drone after a preset swap, checked under SpecLive *)

====
